---- MODULE Spec2Model ----
(***************************************************************************)
(* NexOS self-evolution core: the security subsystem (policy, patch        *)
(* verifier, rollback log), and the kernel's evolution cycle that drives    *)
(* it.  Every operator below is a transcription of the C function of the    *)
(* same name.                                                               *)
(***************************************************************************)
EXTENDS Integers, Sequences, FiniteSets, TLC

\* ------------------------------------------------------------------------
\* error_code_t (kernel.h)
\* ------------------------------------------------------------------------
ERROR_NONE == "ERROR_NONE"
ERROR_MEMORY_ALLOCATION == "ERROR_MEMORY_ALLOCATION"
ERROR_INVALID_PARAMETER == "ERROR_INVALID_PARAMETER"
ERROR_NOT_IMPLEMENTED == "ERROR_NOT_IMPLEMENTED"
ERROR_PERMISSION_DENIED == "ERROR_PERMISSION_DENIED"
ERROR_UNKNOWN == "ERROR_UNKNOWN"

\* A null pointer; every other pointer value is a positive handle.
NULL == 0

\* ------------------------------------------------------------------------
\* security_policy_t and the policy descriptor (security.h)
\* ------------------------------------------------------------------------
SECURITY_POLICY_PERMISSIVE == "PERMISSIVE"
SECURITY_POLICY_STANDARD == "STANDARD"
SECURITY_POLICY_STRICT == "STRICT"
SECURITY_POLICY_PARANOID == "PARANOID"

security_policy_t ==
    { SECURITY_POLICY_PERMISSIVE, SECURITY_POLICY_STANDARD,
      SECURITY_POLICY_STRICT, SECURITY_POLICY_PARANOID }

\* target_module ids as the verifier's switch reads them
MODULE_KERNEL == 0
MODULE_DRIVER == 1
MODULE_MEMORY_LAYOUT == 2
MODULE_SCHEDULER == 3

\* Capacity of the rollback log (entries allocated by security_init and the
\* modulus used by security_create_rollback_entry).
ROLLBACK_CAPACITY == 100

\* ------------------------------------------------------------------------
\* Bounds of the model
\* ------------------------------------------------------------------------
\* Number of patches a caller may have logged in one behaviour.
MaxCreates == 102
\* The same, in the small rollback-log specification.
MaxSmallCreates == 3
\* Largest patch id the callers of the small specification use.
MaxPatchId == 2
\* Number of connections the web server handles in one behaviour.
MaxRequests == 2
\* security_get_rollback_log is called while fewer blocks than this are live.
MaxLogBlocks == 2
\* Number of self_evolution_enable / self_evolution_analyze calls in one
\* behaviour (security_set_policy calls are not counted).
MaxCalls == 1
\* The same, in the specification of enabling and disabling.
MaxToggles == 2
\* The same, for each of the two threads of the threaded specification.
MaxThreadCalls == 1

\* ------------------------------------------------------------------------
\* State
\* ------------------------------------------------------------------------
VARIABLES
    security_initialized,   \* security_state.initialized
    policy,                 \* security_state.policy
    rollback_log,           \* security_state.rollback_log
    heap,                   \* memory_allocate / memory_free bookkeeping
    patch,                  \* the caller's patch_descriptor_t object
    clock,                  \* number of patches the caller has had logged
    call,                   \* the last completed security API call
    kernel_state,           \* kernel_state of kernel.c
    ai_state,               \* ai_state of ai_engine.c
    buffers,                \* the two buffers self_evolution_init allocates
    abi,                    \* size of a pointer, in 32-bit words
    web,                    \* webserver_state and the client connection
    cycle,                  \* position and locals of self_evolution_analyze
    second,                 \* the same, of the thread that is not running
    status,                 \* what a caller of self_evolution_get_status holds
    models                  \* models[6] of ai_engine.c

secVars == <<security_initialized, policy, rollback_log, heap>>
apiVars == <<patch, clock, call>>
kernVars == <<kernel_state, ai_state, buffers, abi, web, cycle, second, status,
              models>>
vars == <<security_initialized, policy, rollback_log, heap, patch, clock, call,
          kernel_state, ai_state, buffers, abi, web, cycle, second, status,
          models>>

\* static struct ... security_state = {0}
ZeroPolicy ==
    [ level |-> SECURITY_POLICY_PERMISSIVE,
      allow_self_evolution |-> FALSE,
      allow_kernel_modifications |-> FALSE,
      allow_driver_modifications |-> FALSE,
      allow_memory_layout_changes |-> FALSE,
      allow_scheduler_modifications |-> FALSE,
      require_verification |-> FALSE,
      require_rollback_capability |-> FALSE,
      max_patch_size |-> 0,
      max_patches_per_cycle |-> 0 ]

\* The entries array comes from memory_allocate and is not cleared: a slot
\* holds a value only once a create call has written it, so entries maps the
\* written slots only.  BlankEntry stands for the fields of a slot that a
\* failed create call has not reached.
BlankEntry ==
    [ patch_id |-> 0, apply_timestamp |-> 0, original_code |-> NULL,
      original_size |-> 0, target_module |-> 0, target_offset |-> 0 ]

Slots == 0 .. (ROLLBACK_CAPACITY - 1)

EmptyLog == [ entry_count |-> 0, entries |-> [i \in {} |-> BlankEntry] ]

EmptyHeap == [ live |-> {}, double_free |-> FALSE ]

\* ------------------------------------------------------------------------
\* memory_allocate / memory_free
\* ------------------------------------------------------------------------
\* The handle a successful memory_allocate returns: the lowest one that is
\* not live, so a released block can be handed out again.
free_handle(hp) ==
    CHOOSE p \in 1 .. (Cardinality(hp.live) + 1) :
        /\ p \notin hp.live
        /\ \A q \in 1 .. (p - 1) : q \in hp.live

\* memory_allocate that succeeds.
memory_allocate(hp) ==
    [ ptr |-> free_handle(hp),
      heap |-> [hp EXCEPT !.live = hp.live \cup {free_handle(hp)}] ]

\* memory_free: releasing NULL does nothing; releasing a handle that is not
\* live is a double free, recorded in the heap.
memory_free(hp, ptr) ==
    IF ptr = NULL THEN hp
    ELSE IF ptr \in hp.live THEN [hp EXCEPT !.live = hp.live \ {ptr}]
    ELSE [hp EXCEPT !.double_free = TRUE]

\* ------------------------------------------------------------------------
\* kernel_state, ai_state and the locals of the evolution cycle
\* ------------------------------------------------------------------------
\* self_evolution_t, without its two buffer pointers
EvolutionZero ==
    [ last_analysis_time |-> 0, optimization_count |-> 0, patch_count |-> 0,
      evolution_level |-> 0, evolution_enabled |-> FALSE ]

\* static struct ... kernel_state = {0}
KernelZero == [ initialized |-> FALSE, uptime |-> 0, evolution |-> EvolutionZero ]

\* The assignments at the end of kernel_init, on top of those of
\* self_evolution_init.
KernelBooted == [ initialized |-> TRUE, uptime |-> 0, evolution |-> EvolutionZero ]

\* static struct ... ai_state = {0}, the fields the cycle touches
AiZero ==
    [ initialized |-> FALSE, last_collection_time |-> 0,
      last_analysis_time |-> 0, last_learning_time |-> 0,
      history |-> [ entry_count |-> 0, entries |-> << >> ] ]

\* ai_state after ai_engine_init
AiReady ==
    [ initialized |-> TRUE, last_collection_time |-> 0,
      last_analysis_time |-> 0, last_learning_time |-> 0,
      history |-> [ entry_count |-> 0, entries |-> << >> ] ]

\* ai_model_type_t, the three values the learning step names, and the
\* indices of models[6].
AI_MODEL_PERFORMANCE == 0
AI_MODEL_MEMORY == 1
AI_MODEL_SCHEDULER == 2
ModelTypes == 0 .. 5

\* The float n/d of an accuracy or an improvement, kept as a whole number
\* of 1/600000ths: 0.7 + i/60 and a few steps of 0.9*a + 0.1*b are exact
\* in this unit.
Accuracy(n, d) == (n * 600000) \div d

\* Size of the placeholder payload ai_engine_init gives every model.
INITIAL_MODEL_SIZE == 1024

\* The heap block ai_engine_init allocates for the payload of model i.
\* These blocks are numbered apart from the ones the cycle allocates.
model_block(i) == 101 + i

\* static ai_model_t models[6] = {0}, the fields the engine computes with
ModelsZero ==
    [ i \in ModelTypes |->
        [ model_data |-> NULL, model_size |-> 0, version |-> 0,
          accuracy |-> 0 ] ]

\* models after an ai_engine_init that succeeded
ModelsReady ==
    [ i \in ModelTypes |->
        [ model_data |-> model_block(i), model_size |-> INITIAL_MODEL_SIZE,
          version |-> 1, accuracy |-> 0 ] ]

\* models after an ai_engine_init whose allocation of payload k failed: the
\* payloads before k have been released, their descriptors still name them.
ModelsAfterFailure(k) ==
    [ i \in ModelTypes |->
        IF i < k THEN ModelsReady[i] ELSE ModelsZero[i] ]

\* Capacity of optimization_history_t.entries and the modulus of its index.
HISTORY_CAPACITY == 100

\* The buffers behind evolution.performance_metrics and
\* evolution.optimization_history.  Of the metrics buffer only uptime is
\* kept: the other fields are written by each collection before they are
\* read.  entries maps the written slots only.
NoBuffers ==
    [ uptime |-> 0,
      history |-> [ entry_count |-> 0, entries |-> <<>> ] ]

\* What memory_allocate hands to self_evolution_init is not cleared: a word
\* of it may hold anything, zero included.
UninitialisedWords == {0, 250}

\* Values the three metrics providers can report: each threshold of
\* ai_engine_analyze_performance met and not met.  Ratios are in hundredths.
MetricsInputs ==
    [ fragmentation_ratio : {50, 60},
      average_wait_time : {100, 150},
      cpu_utilization : {40, 50},
      io_operations : {2000} ]

NoMetrics ==
    [ fragmentation_ratio |-> 0, average_wait_time |-> 0,
      cpu_utilization |-> 0, io_operations |-> 0 ]

\* A patch_descriptor_t with every field zero.
NoDescriptor ==
    [ id |-> 0, size |-> 0, timestamp |-> 0, target_module |-> 0,
      target_offset |-> 0, original_size |-> 0, original_code |-> NULL,
      patch_code |-> NULL, applied |-> FALSE, verified |-> FALSE ]

\* No invocation of self_evolution_analyze in progress.  entry names the API
\* call made last, ret is what it returned, count_before is patch_count as
\* that call found it, calls counts the API calls made so far; the other
\* fields are the locals of self_evolution_analyze (err is its variable of
\* that name once the loop has called the verifier).
IdleCycle ==
    [ pc |-> "idle", entry |-> "none", ret |-> ERROR_NONE,
      metrics |-> NoMetrics,
      suggestions_ptr |-> NULL, suggestions |-> <<>>,
      patches_ptr |-> NULL, patches |-> <<>>,
      i |-> 0, patch_size |-> 0, desc |-> NoDescriptor, err |-> ERROR_NONE,
      count_before |-> 0, calls |-> 0 ]

\* A caller that holds no pointer from self_evolution_get_status.  ptr is
\* the pointer held, taken the self_evolution_t it pointed to when the call
\* returned.
NoStatus == [ ptr |-> NULL, taken |-> EvolutionZero ]

\* http_request_t request = {0}, without the strings handle_client does not
\* read back.
RequestZero == [ method |-> "GET", header_count |-> 0, keep_alive |-> 0 ]

\* webserver_state before the first connection.  calls counts the
\* handle_client calls; fd_open tells whether the connection handed to the
\* last call is open; last records that call: the bytes io_read delivered,
\* the return value, and the status and Connection header of the response.
WebZero ==
    [ request_count |-> 0, bytes_received |-> 0, calls |-> 0,
      fd_open |-> FALSE,
      last |-> [ buffer |-> << >>, ret |-> ERROR_NONE, status |-> 0,
                 connection |-> "none" ] ]

\* ------------------------------------------------------------------------
\* security_init
\* ------------------------------------------------------------------------
security_init_policy ==
    [ level |-> SECURITY_POLICY_STANDARD,
      allow_self_evolution |-> TRUE,
      allow_kernel_modifications |-> TRUE,
      allow_driver_modifications |-> TRUE,
      allow_memory_layout_changes |-> TRUE,
      allow_scheduler_modifications |-> TRUE,
      require_verification |-> TRUE,
      require_rollback_capability |-> TRUE,
      max_patch_size |-> 4096,
      max_patches_per_cycle |-> 5 ]

\* ------------------------------------------------------------------------
\* security_set_policy
\* ------------------------------------------------------------------------
\* A variant that stores the level and leaves the Strict case without its
\* two deny flags.
set_policy_fields_keeps_flags(old, level) ==
    IF level = SECURITY_POLICY_STRICT
    THEN [old EXCEPT !.level = level,
                     !.allow_self_evolution = TRUE,
                     !.allow_driver_modifications = TRUE,
                     !.allow_scheduler_modifications = TRUE,
                     !.require_verification = TRUE,
                     !.require_rollback_capability = TRUE,
                     !.max_patch_size = 2048,
                     !.max_patches_per_cycle = 3]
    ELSE [ level |-> level,
           allow_self_evolution |-> level # SECURITY_POLICY_PARANOID,
           allow_kernel_modifications |-> level # SECURITY_POLICY_PARANOID,
           allow_driver_modifications |-> level # SECURITY_POLICY_PARANOID,
           allow_memory_layout_changes |-> level # SECURITY_POLICY_PARANOID,
           allow_scheduler_modifications |-> level # SECURITY_POLICY_PARANOID,
           require_verification |-> TRUE,
           require_rollback_capability |-> TRUE,
           max_patch_size |->
               IF level = SECURITY_POLICY_PERMISSIVE THEN 8192
               ELSE IF level = SECURITY_POLICY_STANDARD THEN 4096 ELSE 1024,
           max_patches_per_cycle |->
               IF level = SECURITY_POLICY_PERMISSIVE THEN 10
               ELSE IF level = SECURITY_POLICY_STANDARD THEN 5 ELSE 1 ]

\* A variant in which Strict and Standard have exchanged their size limits.
set_policy_fields_limits_exchanged(old, level) ==
    [ level |-> level,
      allow_self_evolution |-> level # SECURITY_POLICY_PARANOID,
      allow_kernel_modifications |->
          level \in {SECURITY_POLICY_PERMISSIVE, SECURITY_POLICY_STANDARD},
      allow_driver_modifications |-> level # SECURITY_POLICY_PARANOID,
      allow_memory_layout_changes |->
          level \in {SECURITY_POLICY_PERMISSIVE, SECURITY_POLICY_STANDARD},
      allow_scheduler_modifications |-> level # SECURITY_POLICY_PARANOID,
      require_verification |-> TRUE,
      require_rollback_capability |-> TRUE,
      max_patch_size |->
          CASE level = SECURITY_POLICY_PERMISSIVE -> 8192
            [] level = SECURITY_POLICY_STANDARD -> 2048
            [] level = SECURITY_POLICY_STRICT -> 4096
            [] OTHER -> 1024,
      max_patches_per_cycle |->
          CASE level = SECURITY_POLICY_PERMISSIVE -> 10
            [] level = SECURITY_POLICY_STANDARD -> 5
            [] level = SECURITY_POLICY_STRICT -> 3
            [] OTHER -> 1 ]

\* The assignment to policy.level followed by the switch on the level; a
\* value outside the four cases would change the level alone.
set_policy_fields(old, level) ==
    LET p0 == [old EXCEPT !.level = level] IN
    CASE level = SECURITY_POLICY_PERMISSIVE ->
           [p0 EXCEPT !.allow_self_evolution = TRUE,
                      !.allow_kernel_modifications = TRUE,
                      !.allow_driver_modifications = TRUE,
                      !.allow_memory_layout_changes = TRUE,
                      !.allow_scheduler_modifications = TRUE,
                      !.require_verification = TRUE,
                      !.require_rollback_capability = TRUE,
                      !.max_patch_size = 8192,
                      !.max_patches_per_cycle = 10]
      [] level = SECURITY_POLICY_STANDARD ->
           [p0 EXCEPT !.allow_self_evolution = TRUE,
                      !.allow_kernel_modifications = TRUE,
                      !.allow_driver_modifications = TRUE,
                      !.allow_memory_layout_changes = TRUE,
                      !.allow_scheduler_modifications = TRUE,
                      !.require_verification = TRUE,
                      !.require_rollback_capability = TRUE,
                      !.max_patch_size = 4096,
                      !.max_patches_per_cycle = 5]
      [] level = SECURITY_POLICY_STRICT ->
           [p0 EXCEPT !.allow_self_evolution = TRUE,
                      !.allow_kernel_modifications = FALSE,
                      !.allow_driver_modifications = TRUE,
                      !.allow_memory_layout_changes = FALSE,
                      !.allow_scheduler_modifications = TRUE,
                      !.require_verification = TRUE,
                      !.require_rollback_capability = TRUE,
                      !.max_patch_size = 2048,
                      !.max_patches_per_cycle = 3]
      [] level = SECURITY_POLICY_PARANOID ->
           [p0 EXCEPT !.allow_self_evolution = FALSE,
                      !.allow_kernel_modifications = FALSE,
                      !.allow_driver_modifications = FALSE,
                      !.allow_memory_layout_changes = FALSE,
                      !.allow_scheduler_modifications = FALSE,
                      !.require_verification = TRUE,
                      !.require_rollback_capability = TRUE,
                      !.max_patch_size = 1024,
                      !.max_patches_per_cycle = 1]
      [] OTHER -> p0

\* ------------------------------------------------------------------------
\* security_verify_patch
\* ------------------------------------------------------------------------
\* The cases of the switch on target_module; any other value takes the
\* default case.
module_known(target_module) ==
    target_module \in { MODULE_KERNEL, MODULE_DRIVER, MODULE_MEMORY_LAYOUT,
                        MODULE_SCHEDULER }

\* A variant in which the driver case tests the kernel flag.
module_allowed_driver_as_kernel(pol, target_module) ==
    CASE target_module = MODULE_KERNEL -> pol.allow_kernel_modifications
      [] target_module = MODULE_DRIVER -> pol.allow_kernel_modifications
      [] target_module = MODULE_MEMORY_LAYOUT -> pol.allow_memory_layout_changes
      [] target_module = MODULE_SCHEDULER -> pol.allow_scheduler_modifications
      [] OTHER -> FALSE

\* The policy's allow flag that the switch tests for a known target module.
module_allowed(pol, target_module) ==
    CASE target_module = MODULE_KERNEL -> pol.allow_kernel_modifications
      [] target_module = MODULE_DRIVER -> pol.allow_driver_modifications
      [] target_module = MODULE_MEMORY_LAYOUT -> pol.allow_memory_layout_changes
      [] target_module = MODULE_SCHEDULER -> pol.allow_scheduler_modifications
      [] OTHER -> FALSE

\* Variants of the verifier: one that refuses an already verified patch, one
\* that omits the backup check, one that runs the integrity checks before the
\* module switch.
verify_patch_code_refuses_verified(ptr, desc, size, pol) ==
    IF ptr = NULL \/ size = 0 THEN ERROR_INVALID_PARAMETER
    ELSE IF size > pol.max_patch_size THEN ERROR_INVALID_PARAMETER
    ELSE IF ~module_known(desc.target_module) THEN ERROR_INVALID_PARAMETER
    ELSE IF ~module_allowed(pol, desc.target_module) THEN ERROR_PERMISSION_DENIED
    ELSE IF desc.original_code = NULL \/ desc.original_size = 0
         THEN ERROR_INVALID_PARAMETER
    ELSE IF desc.patch_code = NULL \/ desc.size = 0 THEN ERROR_INVALID_PARAMETER
    ELSE IF desc.verified THEN ERROR_INVALID_PARAMETER
    ELSE ERROR_NONE

verify_patch_code_no_backup_check(ptr, desc, size, pol) ==
    IF ptr = NULL \/ size = 0 THEN ERROR_INVALID_PARAMETER
    ELSE IF size > pol.max_patch_size THEN ERROR_INVALID_PARAMETER
    ELSE IF ~module_known(desc.target_module) THEN ERROR_INVALID_PARAMETER
    ELSE IF ~module_allowed(pol, desc.target_module) THEN ERROR_PERMISSION_DENIED
    ELSE IF desc.patch_code = NULL \/ desc.size = 0 THEN ERROR_INVALID_PARAMETER
    ELSE ERROR_NONE

verify_patch_code_integrity_first(ptr, desc, size, pol) ==
    IF ptr = NULL \/ size = 0 THEN ERROR_INVALID_PARAMETER
    ELSE IF size > pol.max_patch_size THEN ERROR_INVALID_PARAMETER
    ELSE IF desc.original_code = NULL \/ desc.original_size = 0
         THEN ERROR_INVALID_PARAMETER
    ELSE IF desc.patch_code = NULL \/ desc.size = 0 THEN ERROR_INVALID_PARAMETER
    ELSE IF ~module_known(desc.target_module) THEN ERROR_INVALID_PARAMETER
    ELSE IF ~module_allowed(pol, desc.target_module) THEN ERROR_PERMISSION_DENIED
    ELSE ERROR_NONE

\* A variant whose switch on the target module tests no policy flag.
verify_patch_code_no_permission_check(ptr, desc, size, pol) ==
    IF ptr = NULL \/ size = 0 THEN ERROR_INVALID_PARAMETER
    ELSE IF size > pol.max_patch_size THEN ERROR_INVALID_PARAMETER
    ELSE IF ~module_known(desc.target_module) THEN ERROR_INVALID_PARAMETER
    ELSE IF desc.original_code = NULL \/ desc.original_size = 0
         THEN ERROR_INVALID_PARAMETER
    ELSE IF desc.patch_code = NULL \/ desc.size = 0 THEN ERROR_INVALID_PARAMETER
    ELSE ERROR_NONE

\* The return value: parameter checks, the size limit, the switch on the
\* target module, then the backup and payload checks, in the code's order.
verify_patch_code(ptr, desc, size, pol) ==
    IF ptr = NULL \/ size = 0 THEN ERROR_INVALID_PARAMETER
    ELSE IF size > pol.max_patch_size THEN ERROR_INVALID_PARAMETER
    ELSE IF ~module_known(desc.target_module) THEN ERROR_INVALID_PARAMETER
    ELSE IF ~module_allowed(pol, desc.target_module) THEN ERROR_PERMISSION_DENIED
    ELSE IF desc.original_code = NULL \/ desc.original_size = 0
         THEN ERROR_INVALID_PARAMETER
    ELSE IF desc.patch_code = NULL \/ desc.size = 0 THEN ERROR_INVALID_PARAMETER
    ELSE ERROR_NONE

\* security_verify_patch's return, the initialisation guard included.
verify_patch_ret(initialized, ptr, desc, size, pol) ==
    IF ~initialized THEN ERROR_NOT_IMPLEMENTED
    ELSE verify_patch_code(ptr, desc, size, pol)

\* The descriptor after the call: verified is written on success only.
verify_patch_desc(desc, code) ==
    IF code = ERROR_NONE THEN [desc EXCEPT !.verified = TRUE] ELSE desc

\* ------------------------------------------------------------------------
\* Callers' inputs
\* ------------------------------------------------------------------------
\* Handle of the caller's descriptor object.
PATCH_PTR == 1

\* Descriptors a caller can hand to the verifier: every target module of the
\* switch and one outside it, backup and payload present or absent.
PatchInputs ==
    [ id : {1},
      size : {0, 16},
      timestamp : {0},
      target_module : 0 .. 4,
      target_offset : {0},
      original_size : {0, 16},
      original_code : {NULL, 1},
      patch_code : {NULL, 1},
      applied : {FALSE},
      verified : BOOLEAN ]

\* Values of the size parameter: zero, a small size, and one past each
\* level's max_patch_size.
SizeArgs == {0, 16, 1025, 2049, 4097, 8193}

ApiCall(op, ret, ptr, size, level, id, again, prev_ret, pre_verified, order) ==
    [ op |-> op, ret |-> ret, ptr |-> ptr, size |-> size, level |-> level,
      id |-> id, again |-> again, prev_ret |-> prev_ret,
      pre_verified |-> pre_verified, order |-> order, i |-> -1 ]

NoApiCall ==
    ApiCall("none", ERROR_NONE, NULL, 0, SECURITY_POLICY_PERMISSIVE, 0, FALSE,
            ERROR_NONE, FALSE, <<>>)

\* ------------------------------------------------------------------------
\* Actions of the security API
\* ------------------------------------------------------------------------
\* security_init: the default policy, an empty log of ROLLBACK_CAPACITY
\* slots; fails when the entries array cannot be allocated.
security_init(alloc_ok) ==
    /\ IF security_initialized
       THEN /\ UNCHANGED secVars
            /\ call' = ApiCall("init", ERROR_NONE, NULL, 0, policy.level, 0,
                               FALSE, ERROR_NONE, FALSE, <<>>)
       ELSE IF ~alloc_ok
       THEN /\ policy' = security_init_policy
            /\ rollback_log' = EmptyLog
            /\ UNCHANGED <<security_initialized, heap>>
            /\ call' = ApiCall("init", ERROR_MEMORY_ALLOCATION, NULL, 0,
                               SECURITY_POLICY_STANDARD, 0, FALSE, ERROR_NONE,
                               FALSE, <<>>)
       ELSE /\ policy' = security_init_policy
            /\ rollback_log' = EmptyLog
            /\ security_initialized' = TRUE
            /\ UNCHANGED heap
            /\ call' = ApiCall("init", ERROR_NONE, NULL, 0,
                               SECURITY_POLICY_STANDARD, 0, FALSE, ERROR_NONE,
                               FALSE, <<>>)
    /\ UNCHANGED <<patch, clock>>
    /\ UNCHANGED kernVars

\* security_set_policy
security_set_policy(level) ==
    /\ IF ~security_initialized
       THEN /\ UNCHANGED secVars
            /\ call' = ApiCall("set_policy", ERROR_NOT_IMPLEMENTED, NULL, 0,
                               level, 0, FALSE, ERROR_NONE, FALSE, <<>>)
       ELSE /\ policy' = set_policy_fields(policy, level)
            /\ UNCHANGED <<security_initialized, rollback_log, heap>>
            /\ call' = ApiCall("set_policy", ERROR_NONE, NULL, 0, level, 0,
                               FALSE, ERROR_NONE, FALSE, <<>>)
    /\ UNCHANGED <<patch, clock>>
    /\ UNCHANGED kernVars

\* security_verify_patch(patch, size) on the caller's descriptor (ptr is
\* PATCH_PTR) or on a null pointer.
security_verify_patch(ptr, size) ==
    LET code == verify_patch_ret(security_initialized, ptr, patch, size, policy)
        again == call.op = "verify" /\ call.ptr = ptr /\ call.size = size
    IN /\ patch' = verify_patch_desc(patch, code)
       /\ call' = ApiCall("verify", code, ptr, size, policy.level, patch.id,
                          again, IF again THEN call.ret ELSE ERROR_NONE,
                          patch.verified, <<>>)
       /\ UNCHANGED secVars
       /\ UNCHANGED clock
       /\ UNCHANGED kernVars

\* ------------------------------------------------------------------------
\* Specification of the verifier and the policy
\* ------------------------------------------------------------------------
InitVerify ==
    /\ security_initialized = FALSE
    /\ policy = ZeroPolicy
    /\ rollback_log = EmptyLog
    /\ heap = EmptyHeap
    /\ patch \in PatchInputs
    /\ clock = 0
    /\ call = NoApiCall
    /\ kernel_state = KernelZero
    /\ ai_state = AiZero
    /\ buffers = NoBuffers
    /\ abi = 1
    /\ web = WebZero
    /\ cycle = IdleCycle
    /\ second = IdleCycle
    /\ status = NoStatus
    /\ models = ModelsZero

NextVerify ==
    \/ \E ok \in BOOLEAN : security_init(ok)
    \/ \E level \in security_policy_t : security_set_policy(level)
    \/ \E ptr \in {NULL, PATCH_PTR}, size \in SizeArgs :
          security_verify_patch(ptr, size)

SpecVerify == InitVerify /\ [][NextVerify]_vars

\* ------------------------------------------------------------------------
\* Rollback log
\* ------------------------------------------------------------------------
\* entries with slot i set to e
write_slot(entries, i, e) ==
    [j \in (DOMAIN entries) \cup {i} |-> IF j = i THEN e ELSE entries[j]]

\* The slot as the create call finds it.
read_slot(entries, i) ==
    IF i \in DOMAIN entries THEN entries[i] ELSE BlankEntry

\* entry_index = entry_count % 100
create_entry_index(log) == log.entry_count % ROLLBACK_CAPACITY

\* entry_count after a successful create: saturates at the capacity.
create_entry_count(log) ==
    IF log.entry_count < ROLLBACK_CAPACITY THEN log.entry_count + 1
    ELSE log.entry_count

\* security_create_rollback_entry on an initialised subsystem and a non-null
\* descriptor: [log, heap, ret].  patch_id and apply_timestamp are stored
\* before the backup buffer is allocated; a failed allocation returns with
\* the slot in that state and original_code null.
create_rollback_entry(log, hp, pol, desc, alloc_ok) ==
    IF ~pol.require_rollback_capability
    THEN [ log |-> log, heap |-> hp, ret |-> ERROR_NONE ]
    ELSE
      LET idx == create_entry_index(log)
          e0 == read_slot(log.entries, idx)
          e1 == [e0 EXCEPT !.patch_id = desc.id,
                           !.apply_timestamp = desc.timestamp]
      IN IF ~alloc_ok
         THEN [ log |-> [log EXCEPT !.entries =
                           write_slot(log.entries, idx,
                                      [e1 EXCEPT !.original_code = NULL])],
                heap |-> hp,
                ret |-> ERROR_MEMORY_ALLOCATION ]
         ELSE LET a == memory_allocate(hp)
                  e2 == [e1 EXCEPT !.original_code = a.ptr,
                                   !.original_size = desc.original_size,
                                   !.target_module = desc.target_module,
                                   !.target_offset = desc.target_offset]
              IN [ log |-> [ entry_count |-> create_entry_count(log),
                             entries |-> write_slot(log.entries, idx, e2) ],
                   heap |-> a.heap,
                   ret |-> ERROR_NONE ]

\* Slots below entry_count whose patch_id equals the argument.
matching_slots(log, patch_id) ==
    { i \in 0 .. (log.entry_count - 1) : log.entries[i].patch_id = patch_id }

Min(S) == CHOOSE x \in S : \A y \in S : x <= y

\* The slot security_rollback_patch selects: the first one, in slot order,
\* whose patch_id equals the argument; -1 when the loop finds none.
rollback_target(log, patch_id) ==
    IF matching_slots(log, patch_id) = {} THEN -1
    ELSE Min(matching_slots(log, patch_id))

\* security_rollback_patch on an initialised subsystem: [log, heap, ret, slot].
\* The backup of the selected slot is released and its patch_id set to 0.
rollback_patch(log, hp, patch_id) ==
    LET i == rollback_target(log, patch_id) IN
    IF i = -1
    THEN [ log |-> log, heap |-> hp, ret |-> ERROR_INVALID_PARAMETER, slot |-> -1 ]
    ELSE [ log |-> [log EXCEPT !.entries[i].patch_id = 0],
           heap |-> memory_free(hp, log.entries[i].original_code),
           ret |-> ERROR_NONE,
           slot |-> i ]

\* One iteration of the loop of security_rollback_all, at slot i: a slot
\* whose patch_id is not 0 is handed, by its patch_id, to
\* security_rollback_patch.  st is [log, heap, order]; order collects the
\* apply_timestamp of each entry that call rolled back.
rollback_all_step(st, i) ==
    IF st.log.entries[i].patch_id # 0
    THEN LET r == rollback_patch(st.log, st.heap, st.log.entries[i].patch_id)
         IN [ log |-> r.log, heap |-> r.heap,
              order |-> Append(st.order,
                               st.log.entries[r.slot].apply_timestamp) ]
    ELSE st

\* The descriptor a caller passes to security_create_rollback_entry: a patch
\* with its backup present, stamped with the caller's clock.  The clock
\* advances when the entry is logged; after a failed call the caller may
\* present the patch again.
CallerPatch(id, now) ==
    [ id |-> id, size |-> 16, timestamp |-> now, target_module |-> MODULE_SCHEDULER,
      target_offset |-> 0, original_size |-> 16, original_code |-> 1,
      patch_code |-> 1, applied |-> FALSE, verified |-> TRUE ]

\* security_create_rollback_entry(&patch)
security_create_rollback_entry(id, alloc_ok) ==
    LET desc == CallerPatch(id, clock + 1)
        r == create_rollback_entry(rollback_log, heap, policy, desc, alloc_ok)
    IN /\ security_initialized
       /\ patch' = desc
       /\ clock' = IF r.ret = ERROR_NONE THEN clock + 1 ELSE clock
       /\ rollback_log' = r.log
       /\ heap' = r.heap
       /\ call' = ApiCall("create", r.ret, PATCH_PTR, 0, policy.level, id,
                          FALSE, ERROR_NONE, FALSE, <<>>)
       /\ UNCHANGED <<security_initialized, policy>>
       /\ UNCHANGED kernVars

\* security_rollback_patch(patch_id)
security_rollback_patch(patch_id) ==
    LET r == rollback_patch(rollback_log, heap, patch_id)
        again == call.op = "rollback" /\ call.id = patch_id
    IN /\ security_initialized
       /\ rollback_log' = r.log
       /\ heap' = r.heap
       /\ call' = ApiCall("rollback", r.ret, NULL, 0, policy.level, patch_id,
                          again, IF again THEN call.ret ELSE ERROR_NONE, FALSE,
                          <<>>)
       /\ UNCHANGED <<security_initialized, policy, patch, clock>>
       /\ UNCHANGED kernVars

\* security_rollback_all() up to the head of its loop: call.i is the loop
\* index, entry_count - 1 at first; the call has returned once it is below 0.
security_rollback_all ==
    /\ security_initialized
    /\ call' = [ApiCall("rollback_all", ERROR_NONE, NULL, 0, policy.level, 0,
                        FALSE, ERROR_NONE, FALSE, <<>>)
                  EXCEPT !.i = rollback_log.entry_count - 1]
    /\ UNCHANGED <<secVars, patch, clock>>
    /\ UNCHANGED kernVars

\* One iteration of the loop of security_rollback_all, then i--.
rollback_all_iteration ==
    LET r == rollback_all_step([ log |-> rollback_log, heap |-> heap,
                                 order |-> call.order ], call.i)
    IN /\ call.op = "rollback_all"
       /\ call.i >= 0
       /\ rollback_log' = r.log
       /\ heap' = r.heap
       /\ call' = [call EXCEPT !.order = r.order, !.i = call.i - 1]
       /\ UNCHANGED <<security_initialized, policy, patch, clock>>
       /\ UNCHANGED kernVars

\* No security_rollback_all call is inside its loop.
NoCallInProgress == call.i < 0

\* The loop of security_get_rollback_log from slot i on.  st is [heap,
\* copies, reads, ret]: copies are the blocks allocated for the caller so
\* far, reads the slots whose original_code the memcpy has read.  budget is
\* the number of allocations that still succeed.  A slot with a null
\* original_code is copied as it is; when an allocation fails the copies
\* made so far and the array are released.
RECURSIVE get_log_entries(_, _, _, _, _)
get_log_entries(log, st, array, i, budget) ==
    IF i >= log.entry_count THEN st
    ELSE IF log.entries[i].original_code = NULL
    THEN get_log_entries(log, st, array, i + 1, budget)
    ELSE IF budget = 0
    THEN [ heap |-> [st.heap EXCEPT
                       !.live = st.heap.live \ (st.copies \cup {array})],
           copies |-> {}, reads |-> st.reads,
           ret |-> ERROR_MEMORY_ALLOCATION ]
    ELSE LET a == memory_allocate(st.heap)
         IN get_log_entries(log,
               [st EXCEPT !.heap = a.heap,
                          !.copies = st.copies \cup {a.ptr},
                          !.reads = Append(st.reads, i)],
               array, i + 1, budget - 1)

\* security_get_rollback_log on an initialised subsystem and a non-null
\* log: [heap, reads, ret, array].  The array of entry_count entries is
\* allocated first, then one block per slot below entry_count whose
\* original_code is not null, whatever the slot's patch_id.
get_rollback_log(log, hp, budget) ==
    IF budget = 0
    THEN [ heap |-> hp, reads |-> << >>, ret |-> ERROR_MEMORY_ALLOCATION,
           array |-> NULL ]
    ELSE LET a == memory_allocate(hp)
             r == get_log_entries(log,
                     [ heap |-> a.heap, copies |-> {}, reads |-> << >>,
                       ret |-> ERROR_NONE ],
                     a.ptr, 0, budget - 1)
         IN [ heap |-> r.heap, reads |-> r.reads, ret |-> r.ret,
              array |-> a.ptr ]

\* security_get_rollback_log(&log): the caller keeps the blocks of a
\* successful call.  call.order lists the slots whose backup was read.
security_get_rollback_log(budget) ==
    LET r == get_rollback_log(rollback_log, heap, budget)
    IN /\ security_initialized
       /\ heap' = r.heap
       /\ call' = ApiCall("get_log", r.ret, r.array,
                          rollback_log.entry_count, policy.level, 0, FALSE,
                          ERROR_NONE, FALSE, r.reads)
       /\ UNCHANGED <<security_initialized, policy, rollback_log, patch,
                      clock>>
       /\ UNCHANGED kernVars

\* ------------------------------------------------------------------------
\* Specifications of the rollback log
\* ------------------------------------------------------------------------
\* The state security_init leaves on success.
InitLog ==
    /\ security_initialized = TRUE
    /\ policy = security_init_policy
    /\ rollback_log = EmptyLog
    /\ heap = EmptyHeap
    /\ patch = CallerPatch(0, 0)
    /\ clock = 0
    /\ call = NoApiCall
    /\ kernel_state = KernelZero
    /\ ai_state = AiZero
    /\ buffers = NoBuffers
    /\ abi = 1
    /\ web = WebZero
    /\ cycle = IdleCycle
    /\ second = IdleCycle
    /\ status = NoStatus
    /\ models = ModelsZero

\* A few create calls with caller-chosen nonzero ids (repeated ids included),
\* rollbacks of any id, 0 and an id never logged included, rollback of
\* everything.
NextLog ==
    \/ \E id \in 1 .. MaxPatchId, ok \in BOOLEAN :
          /\ NoCallInProgress
          /\ clock < MaxSmallCreates
          /\ security_create_rollback_entry(id, ok)
    \/ \E id \in 0 .. (MaxPatchId + 1) :
          /\ NoCallInProgress
          /\ security_rollback_patch(id)
    \/ /\ NoCallInProgress
       /\ security_rollback_all
    \/ rollback_all_iteration

SpecLog == InitLog /\ [][NextLog]_vars

\* A caller that numbers its patches 1, 2, 3, ..., fills the log up to and
\* past its capacity, and at some point rolls everything back.
NextWrap ==
    \/ \E ok \in BOOLEAN :
          /\ clock < MaxCreates
          /\ call.op # "rollback_all"
          /\ security_create_rollback_entry(clock + 1, ok)
    \/ /\ NoCallInProgress
       /\ security_rollback_all
    \/ rollback_all_iteration

SpecWrap == InitLog /\ [][NextWrap]_vars

\* The calls of NextLog and a caller that reads the log between them, with
\* any number of its allocations succeeding.
NextReadLog ==
    \/ \E id \in 1 .. MaxPatchId, ok \in BOOLEAN :
          /\ NoCallInProgress
          /\ clock < MaxSmallCreates
          /\ security_create_rollback_entry(id, ok)
    \/ \E id \in 0 .. (MaxPatchId + 1) :
          /\ NoCallInProgress
          /\ security_rollback_patch(id)
    \/ /\ NoCallInProgress
       /\ security_rollback_all
    \/ rollback_all_iteration
    \/ \E budget \in 0 .. (MaxSmallCreates + 1) :
          /\ NoCallInProgress
          /\ Cardinality(heap.live) < MaxLogBlocks
          /\ security_get_rollback_log(budget)

SpecReadLog == InitLog /\ [][NextReadLog]_vars

\* ------------------------------------------------------------------------
\* AI engine functions called by the evolution cycle
\* ------------------------------------------------------------------------
\* What a metrics provider (memory_get_metrics, scheduler_get_metrics,
\* io_get_metrics) can return.
ProviderResults == {ERROR_NONE, ERROR_UNKNOWN, ERROR_MEMORY_ALLOCATION}

\* A variant of ai_engine_collect_metrics for which a failure of the I/O
\* provider is as fatal as one of the other two.
collect_metrics_io_critical(ai, uptime, mem_err, sched_err, io_err, m) ==
    IF ~ai.initialized
    THEN [ ret |-> ERROR_NOT_IMPLEMENTED, ai |-> ai, metrics |-> NoMetrics ]
    ELSE IF mem_err # ERROR_NONE
    THEN [ ret |-> mem_err, ai |-> ai, metrics |-> NoMetrics ]
    ELSE IF sched_err # ERROR_NONE
    THEN [ ret |-> sched_err, ai |-> ai, metrics |-> NoMetrics ]
    ELSE IF io_err # ERROR_NONE
    THEN [ ret |-> io_err, ai |-> ai, metrics |-> NoMetrics ]
    ELSE [ ret |-> ERROR_NONE,
           ai |-> [ai EXCEPT !.last_collection_time = uptime],
           metrics |-> m ]

\* ai_engine_collect_metrics(metrics): [ret, ai, metrics].  m is what the
\* providers report, uptime the uptime field the buffer already holds.
collect_metrics(ai, uptime, mem_err, sched_err, io_err, m) ==
    IF ~ai.initialized
    THEN [ ret |-> ERROR_NOT_IMPLEMENTED, ai |-> ai, metrics |-> NoMetrics ]
    ELSE IF mem_err # ERROR_NONE
    THEN [ ret |-> mem_err, ai |-> ai, metrics |-> NoMetrics ]
    ELSE IF sched_err # ERROR_NONE
    THEN [ ret |-> sched_err, ai |-> ai, metrics |-> NoMetrics ]
    ELSE [ ret |-> ERROR_NONE,
           ai |-> [ai EXCEPT !.last_collection_time = uptime],
           metrics |-> [m EXCEPT !.io_operations =
                           IF io_err # ERROR_NONE THEN 0 ELSE m.io_operations] ]

\* The suggestions the three rules write, in the order of the code.
analyze_rules(m, data_ptr) ==
    (IF m.fragmentation_ratio > 50
     THEN << [ id |-> 1, confidence |-> 80, optimization_data |-> NULL ] >>
     ELSE << >>)
    \o
    (IF m.average_wait_time > 100
     THEN << [ id |-> 2, confidence |-> 70, optimization_data |-> data_ptr ] >>
     ELSE << >>)
    \o
    (IF m.io_operations > 1000 /\ m.cpu_utilization < 50
     THEN << [ id |-> 3, confidence |-> 65, optimization_data |-> NULL ] >>
     ELSE << >>)

\* The array of ten suggestions comes from memory_allocate and no terminator
\* is written after the last suggestion: a reader that stops at the first
\* id 0 sees the written ones followed by whatever the array already held.
SuggestionTails ==
    { << >>,
      << [ id |-> 2, confidence |-> 60, optimization_data |-> NULL ] >> }

\* The last loop of ai_engine_analyze_performance: every model's accuracy
\* is overwritten with 0.7 + i/60.
analyze_accuracy(ms) ==
    [ i \in ModelTypes |->
        [ms[i] EXCEPT !.accuracy = Accuracy(7, 10) + Accuracy(i, 60)] ]

\* ai_engine_analyze_performance(metrics, &suggestions):
\* [ret, ai, heap, ptr, suggestions].  suggestions is the array as a reader
\* sees it, up to the first id 0.
analyze_performance(ai, hp, m, uptime, alloc_ok, data_ok, tail) ==
    IF ~ai.initialized
    THEN [ ret |-> ERROR_NOT_IMPLEMENTED, ai |-> ai, heap |-> hp,
           ptr |-> NULL, suggestions |-> << >> ]
    ELSE IF ~alloc_ok
    THEN [ ret |-> ERROR_MEMORY_ALLOCATION, ai |-> ai, heap |-> hp,
           ptr |-> NULL, suggestions |-> << >> ]
    ELSE LET a == memory_allocate(hp)
             d == IF m.average_wait_time > 100 /\ data_ok
                  THEN memory_allocate(a.heap)
                  ELSE [ ptr |-> NULL, heap |-> a.heap ]
         IN [ ret |-> ERROR_NONE,
              ai |-> [ai EXCEPT !.last_analysis_time = uptime],
              heap |-> d.heap,
              ptr |-> a.ptr,
              suggestions |-> analyze_rules(m, d.ptr) \o tail ]

\* A variant of the loop below without the confidence bar.
RECURSIVE generate_from_no_bar(_, _, _, _, _)
generate_from_no_bar(suggs, k, hp, patches, failing) ==
    IF k > Len(suggs) THEN [ heap |-> hp, patches |-> patches ]
    ELSE IF suggs[k].id \notin {1, 2, 3}
    THEN generate_from_no_bar(suggs, k + 1, hp, patches, failing)
    ELSE IF k \in failing
    THEN generate_from_no_bar(suggs, k + 1, hp, patches, failing)
    ELSE LET a == memory_allocate(hp)
         IN generate_from_no_bar(suggs, k + 1, a.heap, Append(patches, a.ptr),
                                 failing)

\* The loop of ai_engine_generate_patches from suggestion k on:
\* [heap, patches].  failing is the set of suggestions whose patch buffer
\* cannot be allocated.
RECURSIVE generate_from(_, _, _, _, _)
generate_from(suggs, k, hp, patches, failing) ==
    IF k > Len(suggs) THEN [ heap |-> hp, patches |-> patches ]
    ELSE IF suggs[k].confidence < 60
    THEN generate_from(suggs, k + 1, hp, patches, failing)
    ELSE IF suggs[k].id \notin {1, 2, 3}
    THEN generate_from(suggs, k + 1, hp, patches, failing)
    ELSE IF k \in failing
    THEN generate_from(suggs, k + 1, hp, patches, failing)
    ELSE LET a == memory_allocate(hp)
         IN generate_from(suggs, k + 1, a.heap, Append(patches, a.ptr), failing)

\* ai_engine_generate_patches(suggestions, &patches, &patch_count):
\* [ret, heap, ptr, patches]; patch_count is Len(patches).
generate_patches(ai, hp, suggs, array_ok, failing) ==
    IF ~ai.initialized
    THEN [ ret |-> ERROR_NOT_IMPLEMENTED, heap |-> hp, ptr |-> NULL,
           patches |-> << >> ]
    ELSE IF Len(suggs) = 0
    THEN [ ret |-> ERROR_NONE, heap |-> hp, ptr |-> NULL, patches |-> << >> ]
    ELSE IF ~array_ok
    THEN [ ret |-> ERROR_MEMORY_ALLOCATION, heap |-> hp, ptr |-> NULL,
           patches |-> << >> ]
    ELSE LET a == memory_allocate(hp)
             g == generate_from(suggs, 1, a.heap, << >>, failing)
         IN [ ret |-> ERROR_NONE, heap |-> g.heap, ptr |-> a.ptr,
              patches |-> g.patches ]

\* Every handle of the sequence released, first to last.
RECURSIVE free_each(_, _, _)
free_each(hp, ptrs, k) ==
    IF k > Len(ptrs) THEN hp
    ELSE free_each(memory_free(hp, ptrs[k]), ptrs, k + 1)

\* ai_engine_free_suggestions(suggestions): the heap afterwards.
free_suggestions(ai, hp, ptr, suggs) ==
    IF ~ai.initialized \/ ptr = NULL THEN hp
    ELSE memory_free(
           free_each(hp, [k \in 1 .. Len(suggs) |-> suggs[k].optimization_data], 1),
           ptr)

\* ai_engine_free_patches(patches, patch_count): the heap afterwards.
free_patches(ai, hp, ptr, patches) ==
    IF ~ai.initialized \/ ptr = NULL \/ Len(patches) = 0 THEN hp
    ELSE memory_free(free_each(hp, patches, 1), ptr)

\* entry_index = history->entry_count % 100
history_entry_index(h) == h.entry_count % HISTORY_CAPACITY

\* One entry added to the history.
history_add(h, e) ==
    [ entry_count |-> IF h.entry_count < HISTORY_CAPACITY
                      THEN h.entry_count + 1 ELSE h.entry_count,
      entries |-> [ j \in (DOMAIN h.entries) \cup {history_entry_index(h)} |->
                      IF j = history_entry_index(h) THEN e ELSE h.entries[j] ] ]

RECURSIVE history_add_n(_, _, _)
history_add_n(h, n, e) ==
    IF n = 0 THEN h ELSE history_add_n(history_add(h, e), n - 1, e)

\* ai_engine_update_optimization_history(history, suggestions, patches,
\* patch_count): the history afterwards.  For every i below patch_count the
\* inner search stops at the first suggestion, whose id is recorded.
update_optimization_history(ai, h, suggs_ptr, suggs, patch_count) ==
    IF ~ai.initialized \/ suggs_ptr = NULL THEN h
    ELSE IF Len(suggs) = 0 THEN h
    ELSE history_add_n(h, patch_count,
           [ timestamp |-> ai.last_analysis_time,
             suggestion_id |-> suggs[1].id,
             actual_improvement |-> 0,
             reverted |-> FALSE ])

\* ------------------------------------------------------------------------
\* What the kernel reads from the generator's output
\* ------------------------------------------------------------------------
\* Size the generator records for each patch buffer.
GENERATED_PATCH_SIZE == 16

\* The two 32-bit words of the address of heap block p; the high word exists
\* on targets whose pointers are two words wide.
address_low(p) == 65536 + 32 * p

AddressHighWords == {0, 21845}

\* The generator's block is suggestion_count pointers followed by
\* suggestion_count uint32 sizes, of which the first Len(patches) of each
\* are written.  The kernel reads its size for patch i at uint32 index
\* patch_count + i of the block; this is the set of values that word k can
\* hold when a pointer is ptr_words words wide.
patch_array_words(k, ptr_words, suggestion_count, patches) ==
    IF k < ptr_words * suggestion_count
    THEN IF (k \div ptr_words) < Len(patches)
         THEN IF k % ptr_words = 0
              THEN { address_low(patches[(k \div ptr_words) + 1]) }
              ELSE AddressHighWords
         ELSE UninitialisedWords
    ELSE IF (k - ptr_words * suggestion_count) < Len(patches)
         THEN { GENERATED_PATCH_SIZE }
         ELSE UninitialisedWords

\* A patch buffer is 16 bytes, 0xE8 followed by fifteen 0xCC; the verifier
\* reads it as a patch_descriptor_t.  id, size and timestamp lie inside the
\* buffer (0xCCCCCCE8, 0xCCCCCCCC, ...; kept here as their low 16 bits, the
\* verifier only compares size with 0); the other fields lie past its end
\* and hold whatever the heap holds there.
PATCH_BYTES_ID == 52456
PATCH_BYTES_FILL == 52428

DescriptorTails ==
    [ target_module : {MODULE_KERNEL, MODULE_DRIVER, MODULE_MEMORY_LAYOUT,
                       MODULE_SCHEDULER, 4},
      original_size : {16},
      original_code : {NULL, 1},
      patch_code : {NULL, 1} ]

generated_descriptor(tail) ==
    [ id |-> PATCH_BYTES_ID, size |-> PATCH_BYTES_FILL,
      timestamp |-> PATCH_BYTES_FILL,
      target_module |-> tail.target_module, target_offset |-> 0,
      original_size |-> tail.original_size,
      original_code |-> tail.original_code,
      patch_code |-> tail.patch_code,
      applied |-> FALSE, verified |-> FALSE ]

\* ------------------------------------------------------------------------
\* self_evolution_enable and self_evolution_analyze
\* ------------------------------------------------------------------------
\* A variant that grants the permission whatever the policy says.
check_evolution_permission_always_grants(initialized, pol) ==
    IF ~initialized THEN ERROR_NOT_IMPLEMENTED ELSE ERROR_NONE

\* security_check_evolution_permission
check_evolution_permission(initialized, pol) ==
    IF ~initialized THEN ERROR_NOT_IMPLEMENTED
    ELSE IF ~pol.allow_self_evolution THEN ERROR_PERMISSION_DENIED
    ELSE ERROR_NONE

\* The record of an API call that has just started.
Started(entry) ==
    [IdleCycle EXCEPT !.entry = entry,
                      !.count_before = kernel_state.evolution.patch_count,
                      !.calls = cycle.calls + 1]

\* The call returns code: its locals are gone.
Return(c, code) ==
    [c EXCEPT !.pc = "idle", !.ret = code, !.metrics = NoMetrics,
              !.suggestions_ptr = NULL, !.suggestions = << >>,
              !.patches_ptr = NULL, !.patches = << >>,
              !.i = 0, !.patch_size = 0, !.desc = NoDescriptor,
              !.err = ERROR_NONE]

\* A variant of the loop that goes on to apply whatever the verifier said.
after_verify_ignores_result(err) == "apply"

\* The loop's reaction to the verifier's return: continue with the next
\* patch on an error, go on to apply otherwise.
after_verify(err) == IF err # ERROR_NONE THEN "loop" ELSE "apply"

\* self_evolution_analyze from its entry to the return of
\* ai_engine_collect_metrics.  ks is kernel_state as the caller left it.
analyze_collect(entry, ks, mem_err, sched_err, io_err, m) ==
    IF ~ks.initialized \/ ~ks.evolution.evolution_enabled
    THEN /\ kernel_state' = ks
         /\ cycle' = Return(Started(entry), ERROR_NOT_IMPLEMENTED)
         /\ UNCHANGED ai_state
    ELSE LET r == collect_metrics(ai_state, buffers.uptime, mem_err,
                                  sched_err, io_err, m)
         IN /\ kernel_state' =
                  [ks EXCEPT !.evolution.last_analysis_time = ks.uptime]
            /\ ai_state' = r.ai
            /\ cycle' = IF r.ret # ERROR_NONE
                        THEN Return(Started(entry), r.ret)
                        ELSE [Started(entry) EXCEPT !.pc = "analyze",
                                                    !.metrics = r.metrics]

\* self_evolution_analyze(), called while no invocation is in progress.
self_evolution_analyze(mem_err, sched_err, io_err, m) ==
    /\ cycle.pc = "idle"
    /\ analyze_collect("analyze", kernel_state, mem_err, sched_err, io_err, m)
    /\ UNCHANGED <<secVars, apiVars, buffers, abi, web, second, status,
                   models>>

\* self_evolution_enable(true): the permission check, the flag, then the
\* analysis pass whose return it returns.
self_evolution_enable_true(mem_err, sched_err, io_err, m) ==
    /\ cycle.pc = "idle"
    /\ IF ~kernel_state.initialized
       THEN /\ cycle' = Return(Started("enable"), ERROR_NOT_IMPLEMENTED)
            /\ UNCHANGED <<kernel_state, ai_state>>
       ELSE IF check_evolution_permission(security_initialized, policy)
                 # ERROR_NONE
       THEN /\ cycle' = Return(Started("enable"),
                   check_evolution_permission(security_initialized, policy))
            /\ UNCHANGED <<kernel_state, ai_state>>
       ELSE analyze_collect("enable",
               [kernel_state EXCEPT !.evolution.evolution_enabled = TRUE],
               mem_err, sched_err, io_err, m)
    /\ UNCHANGED <<secVars, apiVars, buffers, abi, web, second, status,
                   models>>

\* A variant of self_evolution_enable(false) that also abandons the pass
\* another thread is in the middle of.
self_evolution_enable_false_cancels ==
    /\ cycle.pc = "idle"
    /\ kernel_state' =
          [kernel_state EXCEPT !.evolution.evolution_enabled = FALSE]
    /\ cycle' = Return(Started("disable"), ERROR_NONE)
    /\ second' = Return(second, ERROR_NOT_IMPLEMENTED)
    /\ UNCHANGED <<secVars, apiVars, ai_state, buffers, abi, web, status,
                   models>>

\* self_evolution_enable(false)
self_evolution_enable_false ==
    /\ cycle.pc = "idle"
    /\ IF ~kernel_state.initialized
       THEN /\ cycle' = Return(Started("disable"), ERROR_NOT_IMPLEMENTED)
            /\ UNCHANGED kernel_state
       ELSE IF check_evolution_permission(security_initialized, policy)
                 # ERROR_NONE
       THEN /\ cycle' = Return(Started("disable"),
                   check_evolution_permission(security_initialized, policy))
            /\ UNCHANGED kernel_state
       ELSE /\ kernel_state' =
                  [kernel_state EXCEPT !.evolution.evolution_enabled = FALSE]
            /\ cycle' = Return(Started("disable"), ERROR_NONE)
    /\ UNCHANGED <<secVars, apiVars, ai_state, buffers, abi,
                   web, second, status,
                   models>>

\* self_evolution_analyze at its call of ai_engine_analyze_performance.
analyze_suggest(alloc_ok, data_ok, tail) ==
    /\ cycle.pc = "analyze"
    /\ LET r == analyze_performance(ai_state, heap, cycle.metrics,
                                    buffers.uptime, alloc_ok, data_ok, tail)
       IN /\ ai_state' = r.ai
          /\ heap' = r.heap
          /\ models' = IF r.ret # ERROR_NONE THEN models
                       ELSE analyze_accuracy(models)
          /\ cycle' = IF r.ret # ERROR_NONE THEN Return(cycle, r.ret)
                      ELSE [cycle EXCEPT !.pc = "generate",
                                         !.metrics = NoMetrics,
                                         !.suggestions_ptr = r.ptr,
                                         !.suggestions = r.suggestions]
    /\ UNCHANGED <<security_initialized, policy, rollback_log, apiVars,
                   kernel_state, buffers, abi, web, second, status>>

\* A variant of the step below that counts a pass whose patch generation
\* fails as an optimization pass.
analyze_generate_counts_failures(array_ok, failing) ==
    /\ cycle.pc = "generate"
    /\ failing \subseteq 1 .. Len(cycle.suggestions)
    /\ LET r == generate_patches(ai_state, heap, cycle.suggestions, array_ok,
                                 failing)
       IN IF r.ret # ERROR_NONE
          THEN /\ heap' = free_suggestions(ai_state, r.heap,
                              cycle.suggestions_ptr, cycle.suggestions)
               /\ cycle' = Return(cycle, r.ret)
               /\ kernel_state' =
                     [kernel_state EXCEPT !.evolution.optimization_count = @ + 1]
          ELSE /\ heap' = r.heap
               /\ cycle' = [cycle EXCEPT !.pc = "loop",
                                         !.patches_ptr = r.ptr,
                                         !.patches = r.patches,
                                         !.i = 0]
               /\ UNCHANGED kernel_state
    /\ UNCHANGED <<security_initialized, policy, rollback_log, apiVars,
                   ai_state, buffers, abi, web, second, status,
                   models>>

\* self_evolution_analyze at its call of ai_engine_generate_patches; on an
\* error the suggestions are released and the error returned.
analyze_generate(array_ok, failing) ==
    /\ cycle.pc = "generate"
    /\ failing \subseteq 1 .. Len(cycle.suggestions)
    /\ LET r == generate_patches(ai_state, heap, cycle.suggestions, array_ok,
                                 failing)
       IN IF r.ret # ERROR_NONE
          THEN /\ heap' = free_suggestions(ai_state, r.heap,
                              cycle.suggestions_ptr, cycle.suggestions)
               /\ cycle' = Return(cycle, r.ret)
          ELSE /\ heap' = r.heap
               /\ cycle' = [cycle EXCEPT !.pc = "loop",
                                         !.patches_ptr = r.ptr,
                                         !.patches = r.patches,
                                         !.i = 0]
    /\ UNCHANGED <<security_initialized, policy, rollback_log, apiVars,
                   kernel_state, ai_state, buffers, abi, web, second, status,
                   models>>

\* One iteration of the apply loop up to the verifier's return: the patch
\* pointer, the size word, security_verify_patch, and the continue on error.
\* word is the value of the size word, tail the descriptor fields read past
\* the end of the patch buffer.  patch_size, desc and err are kept while
\* the iteration goes on to apply; the next iteration overwrites them, and
\* starts here from cleared ones.
analyze_verify(word, tail) ==
    /\ cycle.pc = "loop"
    /\ cycle.i < Len(cycle.patches)
    /\ word \in patch_array_words(Len(cycle.patches) + cycle.i, abi,
                                  Len(cycle.suggestions), cycle.patches)
    /\ LET p == cycle.patches[cycle.i + 1]
           desc == generated_descriptor(tail)
           err == verify_patch_ret(security_initialized, p, desc, word, policy)
       IN cycle' =
            [cycle EXCEPT
               !.patch_size = IF after_verify(err) = "loop" THEN 0 ELSE word,
               !.desc = IF after_verify(err) = "loop" THEN NoDescriptor
                        ELSE verify_patch_desc(desc, err),
               !.err = IF after_verify(err) = "loop" THEN ERROR_NONE ELSE err,
               !.pc = after_verify(err),
               !.i = IF after_verify(err) = "loop" THEN @ + 1 ELSE @]
    /\ UNCHANGED <<secVars, apiVars, kernel_state, ai_state, buffers, abi,
                   web, second, status,
                   models>>

\* A variant of the step below in which a failing applier ends the cycle
\* with the applier's error.
analyze_apply_aborts(apply_err) ==
    /\ cycle.pc = "apply"
    /\ kernel_state' =
          IF apply_err = ERROR_NONE
          THEN [kernel_state EXCEPT !.evolution.patch_count = @ + 1]
          ELSE kernel_state
    /\ cycle' = IF apply_err = ERROR_NONE
                THEN [cycle EXCEPT !.err = ERROR_NONE, !.pc = "loop",
                                   !.i = @ + 1, !.patch_size = 0,
                                   !.desc = NoDescriptor]
                ELSE Return(cycle, apply_err)
    /\ UNCHANGED <<secVars, apiVars, ai_state, buffers, abi,
                   web, second, status,
                   models>>

\* The rest of the iteration: self_evolution_apply_patch, whose return
\* apply_err is the applier's, and the increment of patch_count on success.
analyze_apply(apply_err) ==
    /\ cycle.pc = "apply"
    /\ kernel_state' =
          IF apply_err = ERROR_NONE
          THEN [kernel_state EXCEPT !.evolution.patch_count = @ + 1]
          ELSE kernel_state
    /\ cycle' = [cycle EXCEPT !.err = ERROR_NONE, !.pc = "loop", !.i = @ + 1,
                              !.patch_size = 0, !.desc = NoDescriptor]
    /\ UNCHANGED <<secVars, apiVars, ai_state, buffers, abi,
                   web, second, status,
                   models>>

\* After the loop: the history update, the two releases, the increment of
\* optimization_count, return ERROR_NONE.
analyze_finish ==
    /\ cycle.pc = "loop"
    /\ cycle.i = Len(cycle.patches)
    /\ buffers' =
          [buffers EXCEPT !.history =
              update_optimization_history(ai_state, @, cycle.suggestions_ptr,
                                          cycle.suggestions,
                                          Len(cycle.patches))]
    /\ heap' = free_patches(ai_state,
                  free_suggestions(ai_state, heap, cycle.suggestions_ptr,
                                   cycle.suggestions),
                  cycle.patches_ptr, cycle.patches)
    /\ kernel_state' =
          [kernel_state EXCEPT !.evolution.optimization_count = @ + 1]
    /\ cycle' = Return(cycle, ERROR_NONE)
    /\ UNCHANGED <<security_initialized, policy, rollback_log, apiVars,
                   ai_state, abi, web, second, status,
                   models>>

\* ------------------------------------------------------------------------
\* Specification of the kernel with its evolution cycle
\* ------------------------------------------------------------------------
\* The state in which kernel_init's last assignments leave the kernel, with
\* the security subsystem and the AI engine initialised.  (kernel_init calls
\* self_evolution_init before it sets kernel_state.initialized, so that call
\* returns ERROR_NOT_IMPLEMENTED and kernel_init with it; the cycle is
\* studied from the state a successful initialisation is meant to produce.)
Init ==
    /\ security_initialized = TRUE
    /\ policy = security_init_policy
    /\ rollback_log = EmptyLog
    /\ heap = EmptyHeap
    /\ patch = NoDescriptor
    /\ clock = 0
    /\ call = NoApiCall
    /\ kernel_state = KernelBooted
    /\ ai_state = AiReady
    /\ buffers \in { [ uptime |-> w,
                        history |-> [ entry_count |-> w, entries |-> << >> ] ] :
                      w \in UninitialisedWords }
    /\ abi \in {1, 2}
    /\ web = WebZero
    /\ cycle = IdleCycle
    /\ second = IdleCycle
    /\ status = NoStatus
    /\ models = ModelsReady

\* Patch buffers that cannot be allocated in one generator call: none, or
\* the one of the first or of the second suggestion.
FailingAllocations == { {}, {1}, {2} }

\* The kernel is single-threaded: between the entry of
\* self_evolution_analyze and its return nothing else runs.
Next ==
    \/ \E level \in security_policy_t :
          /\ cycle.pc = "idle"
          /\ security_set_policy(level)
    \/ \E mem_err, sched_err, io_err \in ProviderResults, m \in MetricsInputs :
          /\ cycle.calls < MaxCalls
          /\ self_evolution_analyze(mem_err, sched_err, io_err, m)
    \/ \E mem_err, sched_err, io_err \in ProviderResults, m \in MetricsInputs :
          /\ cycle.calls < MaxCalls
          /\ self_evolution_enable_true(mem_err, sched_err, io_err, m)
    \/ /\ cycle.calls < MaxCalls
       /\ self_evolution_enable_false
    \/ \E alloc_ok, data_ok \in BOOLEAN, tail \in SuggestionTails :
          analyze_suggest(alloc_ok, data_ok, tail)
    \/ \E array_ok \in BOOLEAN, failing \in FailingAllocations :
          analyze_generate(array_ok, failing)
    \/ \E word \in UninitialisedWords \cup AddressHighWords
                     \cup {GENERATED_PATCH_SIZE}
                     \cup {address_low(p) : p \in 1 .. 8},
          tail \in DescriptorTails :
          analyze_verify(word, tail)
    \/ \E apply_err \in {ERROR_NONE, ERROR_UNKNOWN} : analyze_apply(apply_err)
    \/ analyze_finish

Spec == Init /\ [][Next]_vars

\* ------------------------------------------------------------------------
\* kernel_init and the calls a program makes after it
\* ------------------------------------------------------------------------
\* What memory_init and scheduler_init can return.
InitResults == {ERROR_NONE, ERROR_UNKNOWN}

\* ai_engine_init(): [ret, ai].  alloc_ok tells whether its allocations (the
\* process profiles and the six models, which are never released) succeed.
ai_engine_init(ai, alloc_ok) ==
    IF ai.initialized THEN [ ret |-> ERROR_NONE, ai |-> ai ]
    ELSE IF ~alloc_ok
    THEN [ ret |-> ERROR_MEMORY_ALLOCATION, ai |-> AiZero ]
    ELSE [ ret |-> ERROR_NONE, ai |-> AiReady ]

\* models after ai_engine_init(): the possible arrays.  A failing call has
\* failed at the process profiles (no payload allocated yet) or at one of
\* the six payloads.
ai_engine_init_models(ai, ms, alloc_ok) ==
    IF ai.initialized THEN { ms }
    ELSE IF ~alloc_ok THEN { ModelsAfterFailure(k) : k \in ModelTypes }
    ELSE { ModelsReady }

\* security_init(): [ret, initialized, policy, log].
security_init_state(initialized, pol, log, alloc_ok) ==
    IF initialized
    THEN [ ret |-> ERROR_NONE, initialized |-> TRUE, policy |-> pol, log |-> log ]
    ELSE IF ~alloc_ok
    THEN [ ret |-> ERROR_MEMORY_ALLOCATION, initialized |-> FALSE,
           policy |-> security_init_policy, log |-> EmptyLog ]
    ELSE [ ret |-> ERROR_NONE, initialized |-> TRUE,
           policy |-> security_init_policy, log |-> EmptyLog ]

\* self_evolution_init(): [ret, ks, allocated].  The guard on
\* kernel_state.initialized comes first; then the five fields are cleared
\* and the two buffers allocated.
self_evolution_init(ks, metrics_ok, history_ok) ==
    IF ~ks.initialized
    THEN [ ret |-> ERROR_NOT_IMPLEMENTED, ks |-> ks, allocated |-> FALSE ]
    ELSE IF ~metrics_ok \/ ~history_ok
    THEN [ ret |-> ERROR_MEMORY_ALLOCATION,
           ks |-> [ks EXCEPT !.evolution = EvolutionZero], allocated |-> FALSE ]
    ELSE [ ret |-> ERROR_NONE,
           ks |-> [ks EXCEPT !.evolution = EvolutionZero], allocated |-> TRUE ]

\* The two buffers as memory_allocate hands them out.
FreshBuffers ==
    { [ uptime |-> w, history |-> [ entry_count |-> w, entries |-> << >> ] ] :
        w \in UninitialisedWords }

\* An API call that returns at once: its name and its return value.
Called(entry, code) == [cycle EXCEPT !.entry = entry, !.ret = code]

\* kernel_init(): memory_init, scheduler_init, ai_engine_init, security_init,
\* self_evolution_init, each returned from on error, and only then the
\* assignment of kernel_state.initialized.
kernel_init(mem_err, sched_err, ai_ok, sec_ok, metrics_ok, history_ok) ==
    LET a == ai_engine_init(ai_state, ai_ok)
        sec == security_init_state(security_initialized, policy, rollback_log,
                                   sec_ok)
        e == self_evolution_init(kernel_state, metrics_ok, history_ok)
        at_ai == ~kernel_state.initialized /\ mem_err = ERROR_NONE
                    /\ sched_err = ERROR_NONE
        at_security == at_ai /\ a.ret = ERROR_NONE
        at_evolution == at_security /\ sec.ret = ERROR_NONE
        at_end == at_evolution /\ e.ret = ERROR_NONE
        ret == IF kernel_state.initialized THEN ERROR_NONE
               ELSE IF mem_err # ERROR_NONE THEN mem_err
               ELSE IF sched_err # ERROR_NONE THEN sched_err
               ELSE IF a.ret # ERROR_NONE THEN a.ret
               ELSE IF sec.ret # ERROR_NONE THEN sec.ret
               ELSE e.ret
    IN /\ cycle.pc = "idle"
       /\ ai_state' = IF at_ai THEN a.ai ELSE ai_state
       /\ security_initialized' =
             IF at_security THEN sec.initialized ELSE security_initialized
       /\ policy' = IF at_security THEN sec.policy ELSE policy
       /\ rollback_log' = IF at_security THEN sec.log ELSE rollback_log
       /\ kernel_state' =
             IF at_end THEN [e.ks EXCEPT !.initialized = TRUE, !.uptime = 0]
             ELSE IF at_evolution THEN e.ks
             ELSE kernel_state
       /\ IF at_evolution /\ e.allocated
          THEN buffers' \in FreshBuffers
          ELSE UNCHANGED buffers
       /\ IF at_ai
          THEN models' \in ai_engine_init_models(ai_state, models, ai_ok)
          ELSE UNCHANGED models
       /\ cycle' = Called("kernel_init", ret)
       /\ UNCHANGED <<heap, apiVars, abi, web, second, status>>

\* self_evolution_init() called by the program itself.
self_evolution_init_call(metrics_ok, history_ok) ==
    LET e == self_evolution_init(kernel_state, metrics_ok, history_ok)
    IN /\ cycle.pc = "idle"
       /\ kernel_state' = e.ks
       /\ IF e.allocated THEN buffers' \in FreshBuffers ELSE UNCHANGED buffers
       /\ cycle' = Called("self_evolution_init", e.ret)
       /\ UNCHANGED <<secVars, apiVars, ai_state, abi, web, second, status,
                   models>>

\* ai_engine_init() called by the program itself.
ai_engine_init_call(alloc_ok) ==
    /\ cycle.pc = "idle"
    /\ ai_state' = ai_engine_init(ai_state, alloc_ok).ai
    /\ models' \in ai_engine_init_models(ai_state, models, alloc_ok)
    /\ cycle' = Called("ai_engine_init", ai_engine_init(ai_state, alloc_ok).ret)
    /\ UNCHANGED <<secVars, apiVars, kernel_state, buffers, abi,
                   web, second, status>>

\* What process_create returns once past its guard and its parameter check:
\* success, or the error of one of its allocations and sub-calls.
ProcessCreateResults == {ERROR_NONE, ERROR_MEMORY_ALLOCATION, ERROR_UNKNOWN}

\* process_create(&process, entry, arg, priority) with valid parameters.
process_create(result) ==
    /\ cycle.pc = "idle"
    /\ cycle' = Called("process_create",
                       IF ~kernel_state.initialized THEN ERROR_NOT_IMPLEMENTED
                       ELSE result)
    /\ UNCHANGED <<secVars, apiVars, kernel_state, ai_state, buffers, abi, web,
                   second, status,
                   models>>

\* static struct ... = {0} for every subsystem.
InitBoot ==
    /\ security_initialized = FALSE
    /\ policy = ZeroPolicy
    /\ rollback_log = EmptyLog
    /\ heap = EmptyHeap
    /\ patch = NoDescriptor
    /\ clock = 0
    /\ call = NoApiCall
    /\ kernel_state = KernelZero
    /\ ai_state = AiZero
    /\ buffers = NoBuffers
    /\ abi \in {1, 2}
    /\ web = WebZero
    /\ cycle = IdleCycle
    /\ second = IdleCycle
    /\ status = NoStatus
    /\ models = ModelsZero

\* A program that calls kernel_init and then goes on, or not, with the
\* calls that follow it in the programs of the repository.
NextBoot ==
    \/ \E mem_err, sched_err \in InitResults,
          ai_ok, sec_ok, metrics_ok, history_ok \in BOOLEAN :
          kernel_init(mem_err, sched_err, ai_ok, sec_ok, metrics_ok, history_ok)
    \/ \E ok \in BOOLEAN : security_init(ok)
    \/ \E ok \in BOOLEAN : ai_engine_init_call(ok)
    \/ \E metrics_ok, history_ok \in BOOLEAN :
          self_evolution_init_call(metrics_ok, history_ok)
    \/ \E result \in ProcessCreateResults : process_create(result)
    \/ \E level \in security_policy_t : security_set_policy(level)
    \/ \E mem_err, sched_err, io_err \in ProviderResults, m \in MetricsInputs :
          /\ cycle.calls < MaxCalls
          /\ self_evolution_enable_true(mem_err, sched_err, io_err, m)

SpecBoot == InitBoot /\ [][NextBoot]_vars

\* ------------------------------------------------------------------------
\* self_evolution_get_status, and a program that enables and disables
\* ------------------------------------------------------------------------
\* The address of kernel_state.evolution.
EVOLUTION_PTR == 1000

\* What a read through a pointer obtained from self_evolution_get_status
\* yields now.
pointee(ptr) ==
    IF ptr = EVOLUTION_PTR THEN kernel_state.evolution ELSE EvolutionZero

\* self_evolution_get_status(): NULL before initialisation, otherwise
\* &kernel_state.evolution.  The caller keeps the pointer and remembers what
\* it pointed to when the call returned.
self_evolution_get_status ==
    /\ cycle.pc = "idle"
    /\ status' = IF ~kernel_state.initialized THEN NoStatus
                  ELSE [ ptr |-> EVOLUTION_PTR, taken |-> kernel_state.evolution ]
    /\ UNCHANGED <<secVars, apiVars, kernel_state, ai_state, buffers, abi, web,
                   cycle, second, models>>

\* A caller assigns evolution_enabled through the pointer it holds.
status_write(enabled) ==
    /\ cycle.pc = "idle"
    /\ status.ptr = EVOLUTION_PTR
    /\ kernel_state' =
          [kernel_state EXCEPT !.evolution.evolution_enabled = enabled]
    /\ UNCHANGED <<secVars, apiVars, ai_state, buffers, abi,
                   web, cycle, second,
                   status,
                   models>>

\* A snapshot in which no threshold of the analysis is exceeded.
QuietMetrics ==
    [ fragmentation_ratio |-> 50, average_wait_time |-> 100,
      cpu_utilization |-> 50, io_operations |-> 2000 ]

\* A program that changes the policy, enables and disables evolution and
\* queries the status, on a quiet system: each analysis pass finds nothing
\* to suggest.
NextEnable ==
    \/ \E level \in security_policy_t :
          /\ cycle.pc = "idle"
          /\ security_set_policy(level)
    \/ \E mem_err, sched_err, io_err \in ProviderResults :
          /\ cycle.calls < MaxToggles
          /\ self_evolution_enable_true(mem_err, sched_err, io_err, QuietMetrics)
    \/ /\ cycle.calls < MaxToggles
       /\ self_evolution_enable_false
    \/ \E alloc_ok \in BOOLEAN : analyze_suggest(alloc_ok, TRUE, << >>)
    \/ analyze_generate(TRUE, {})
    \/ analyze_finish
    \/ self_evolution_get_status
    \/ \E enabled \in BOOLEAN : status_write(enabled)

SpecEnable == Init /\ [][NextEnable]_vars

\* ------------------------------------------------------------------------
\* Two kernel threads that call the evolution API
\* ------------------------------------------------------------------------
\* The scheduler takes the processor from the running thread and gives it to
\* the other one: cycle is the position of the thread that runs, second
\* that of the thread that waits.  The functions of kernel.c take no lock
\* and mask nothing, so this can happen between any two of their steps.
context_switch ==
    /\ cycle' = second
    /\ second' = cycle
    /\ UNCHANGED <<secVars, apiVars, kernel_state, ai_state, buffers, abi, web,
                   status,
                   models>>

\* A snapshot whose only exceeded threshold is that of fragmentation_ratio.
FragmentedMetrics ==
    [ fragmentation_ratio |-> 60, average_wait_time |-> 100,
      cpu_utilization |-> 50, io_operations |-> 2000 ]

\* The descriptor tails with backup and payload present.
CompleteTails ==
    { t \in DescriptorTails : t.original_code # NULL /\ t.patch_code # NULL }

\* Each thread makes calls of the evolution API on a fragmented system whose
\* metrics providers and allocations succeed.
NextThreads ==
    \/ context_switch
    \/ /\ cycle.calls < MaxThreadCalls
       /\ self_evolution_analyze(ERROR_NONE, ERROR_NONE, ERROR_NONE,
                                 FragmentedMetrics)
    \/ /\ cycle.calls < MaxThreadCalls
       /\ self_evolution_enable_true(ERROR_NONE, ERROR_NONE, ERROR_NONE,
                                     FragmentedMetrics)
    \/ /\ cycle.calls < MaxThreadCalls
       /\ self_evolution_enable_false
    \/ analyze_suggest(TRUE, TRUE, << >>)
    \/ analyze_generate(TRUE, {})
    \/ \E word \in UninitialisedWords \cup AddressHighWords
                     \cup {GENERATED_PATCH_SIZE}
                     \cup {address_low(p) : p \in 1 .. 8},
          tail \in CompleteTails :
          analyze_verify(word, tail)
    \/ \E apply_err \in {ERROR_NONE, ERROR_UNKNOWN} : analyze_apply(apply_err)
    \/ analyze_finish

SpecThreads == Init /\ [][NextThreads]_vars

\* ------------------------------------------------------------------------
\* The models: ai_engine_load_model, ai_engine_generate_new_model and
\* ai_engine_learn_from_history
\* ------------------------------------------------------------------------
\* Calls of the model functions one program makes.
MaxModelCalls == 2

\* An entry of ai_state.history that was never written: the memset of
\* ai_engine_init left it zero.
ZeroHistoryEntry ==
    [ timestamp |-> 0, suggestion_id |-> 0, actual_improvement |-> 0,
      reverted |-> FALSE ]

\* A variant of the switch below with the models of ids 1 and 2 exchanged.
learn_model_type_swapped(suggestion_id) ==
    IF suggestion_id = 1 THEN AI_MODEL_SCHEDULER
    ELSE IF suggestion_id = 2 THEN AI_MODEL_MEMORY
    ELSE IF suggestion_id = 3 THEN AI_MODEL_PERFORMANCE
    ELSE -1

\* The switch of ai_engine_learn_from_history: the model a suggestion id
\* selects, -1 for the default branch.
learn_model_type(suggestion_id) ==
    IF suggestion_id = 1 THEN AI_MODEL_MEMORY
    ELSE IF suggestion_id = 2 THEN AI_MODEL_SCHEDULER
    ELSE IF suggestion_id = 3 THEN AI_MODEL_PERFORMANCE
    ELSE -1

\* 0.9f * accuracy + 0.1f * actual_improvement, or 0.9f * accuracy for a
\* reverted entry.
learn_accuracy(accuracy, actual_improvement, reverted) ==
    IF ~reverted THEN (9 * accuracy + actual_improvement) \div 10
    ELSE (9 * accuracy) \div 10

\* One iteration of the loop of ai_engine_learn_from_history.
learn_entry(ms, e) ==
    IF learn_model_type(e.suggestion_id) = -1 THEN ms
    ELSE [ms EXCEPT ![learn_model_type(e.suggestion_id)].accuracy =
             learn_accuracy(@, e.actual_improvement, e.reverted)]

\* The loop from entry i on: i runs below entry_count, the slot is i % 100.
RECURSIVE learn_from(_, _, _)
learn_from(h, ms, i) ==
    IF i >= h.entry_count THEN ms
    ELSE LET slot == i % HISTORY_CAPACITY
             e == IF slot \in DOMAIN h.entries THEN h.entries[slot]
                  ELSE ZeroHistoryEntry
         IN learn_from(h, learn_entry(ms, e), i + 1)

\* The record of a model call that has returned.
ModelCalled(entry, code) ==
    [cycle EXCEPT !.entry = entry, !.ret = code, !.calls = @ + 1]

\* ai_engine_learn_from_history()
ai_engine_learn_from_history ==
    /\ cycle.pc = "idle"
    /\ IF ~ai_state.initialized
       THEN /\ cycle' = ModelCalled("learn", ERROR_NOT_IMPLEMENTED)
            /\ UNCHANGED <<ai_state, models>>
       ELSE /\ models' = learn_from(ai_state.history, models, 0)
            /\ ai_state' = [ai_state EXCEPT !.last_learning_time =
                                ai_state.last_collection_time]
            /\ cycle' = ModelCalled("learn", ERROR_NONE)
    /\ UNCHANGED <<secVars, apiVars, kernel_state, buffers, abi, web, second,
                   status>>

\* ai_engine_load_model(type, model_data, model_size): [ret, models, heap].
\* The old payload is released first, then the new block is asked for.
load_model(ai, ms, hp, type, model_data, model_size, alloc_ok) ==
    IF ~ai.initialized
    THEN [ ret |-> ERROR_NOT_IMPLEMENTED, models |-> ms, heap |-> hp ]
    ELSE IF type >= 6 \/ model_data = NULL \/ model_size = 0
    THEN [ ret |-> ERROR_INVALID_PARAMETER, models |-> ms, heap |-> hp ]
    ELSE LET released == memory_free(hp, ms[type].model_data)
             a == memory_allocate(released)
         IN IF ~alloc_ok
            THEN [ ret |-> ERROR_MEMORY_ALLOCATION,
                   models |-> [ms EXCEPT ![type].model_data = NULL],
                   heap |-> released ]
            ELSE [ ret |-> ERROR_NONE,
                   models |-> [ms EXCEPT ![type] =
                                 [ model_data |-> a.ptr,
                                   model_size |-> model_size,
                                   version |-> ms[type].version + 1,
                                   accuracy |-> 0 ]],
                   heap |-> a.heap ]

\* ai_engine_load_model called by a program.
ai_engine_load_model(type, model_data, model_size, alloc_ok) ==
    LET r == load_model(ai_state, models, heap, type, model_data, model_size,
                        alloc_ok)
    IN /\ cycle.pc = "idle"
       /\ models' = r.models
       /\ heap' = r.heap
       /\ cycle' = ModelCalled("load_model", r.ret)
       /\ UNCHANGED <<security_initialized, policy, rollback_log, apiVars,
                      kernel_state, ai_state, buffers, abi,
                   web, second, status>>

\* ai_engine_generate_new_model(type)
ai_engine_generate_new_model(type) ==
    /\ cycle.pc = "idle"
    /\ IF ~ai_state.initialized
       THEN /\ cycle' = ModelCalled("generate_new_model", ERROR_NOT_IMPLEMENTED)
            /\ UNCHANGED models
       ELSE IF type >= 6
       THEN /\ cycle' = ModelCalled("generate_new_model",
                                    ERROR_INVALID_PARAMETER)
            /\ UNCHANGED models
       ELSE /\ models' = [models EXCEPT ![type].version = @ + 1]
            /\ cycle' = ModelCalled("generate_new_model", ERROR_NONE)
    /\ UNCHANGED <<secVars, apiVars, kernel_state, ai_state, buffers, abi, web,
                   second, status>>

\* Entries of ai_state.history, the input of the learning step: every
\* branch of its switch, an improvement of 0.5, reverted or not.
\* Nothing in the sources writes ai_state.history after the memset of
\* ai_engine_init (the kernel's cycle records into its own buffer), so the
\* learning step is exercised on histories handed to it here.
MaxHistoryEntries == 2
HistoryEntryInputs ==
    [ timestamp : {0},
      suggestion_id : 1 .. 4,
      actual_improvement : {Accuracy(1, 2)},
      reverted : BOOLEAN ]

LearnerHistories ==
    { [ entry_count |-> 0, entries |-> << >> ] }
    \cup
    UNION { { [ entry_count |-> n,
                entries |-> [ j \in 0 .. (n - 1) |-> f[j + 1] ] ] :
              f \in [ 1 .. n -> HistoryEntryInputs ] } :
            n \in 1 .. MaxHistoryEntries }

\* Payload sizes and types a caller passes to ai_engine_load_model.
ModelSizeInputs == {0, 2048}
ModelTypeInputs == {AI_MODEL_PERFORMANCE, AI_MODEL_MEMORY, 6}

\* The engine after ai_engine_init, its six payloads live, with a history
\* to learn from.
InitModels ==
    /\ security_initialized = TRUE
    /\ policy = security_init_policy
    /\ rollback_log = EmptyLog
    /\ heap = [ EmptyHeap EXCEPT !.live = { model_block(i) : i \in ModelTypes } ]
    /\ patch = NoDescriptor
    /\ clock = 0
    /\ call = NoApiCall
    /\ kernel_state = KernelBooted
    /\ ai_state \in { [AiReady EXCEPT !.history = h] : h \in LearnerHistories }
    /\ buffers = NoBuffers
    /\ abi = 1
    /\ web = WebZero
    /\ cycle = IdleCycle
    /\ second = IdleCycle
    /\ status = NoStatus
    /\ models = ModelsReady

\* One analysis pass on a quiet system (it sets the accuracies), and the
\* model functions.
NextModels ==
    \/ /\ cycle.calls < MaxModelCalls
       /\ kernel_state.evolution.optimization_count = 0
       /\ self_evolution_enable_true(ERROR_NONE, ERROR_NONE, ERROR_NONE,
                                     QuietMetrics)
    \/ analyze_suggest(TRUE, TRUE, << >>)
    \/ analyze_generate(TRUE, {})
    \/ analyze_finish
    \/ /\ cycle.calls < MaxModelCalls
       /\ ai_engine_learn_from_history
    \/ \E type \in ModelTypeInputs, model_data \in {NULL, 1},
          model_size \in ModelSizeInputs, alloc_ok \in BOOLEAN :
          /\ cycle.calls < MaxModelCalls
          /\ ai_engine_load_model(type, model_data, model_size, alloc_ok)
    \/ \E type \in ModelTypeInputs :
          /\ cycle.calls < MaxModelCalls
          /\ ai_engine_generate_new_model(type)

SpecModels == InitModels /\ [][NextModels]_vars

\* ------------------------------------------------------------------------
\* ai_engine_generate_patches on any suggestion array
\* ------------------------------------------------------------------------
\* Suggestions a reader can find in the array: a recognised id or not, a
\* confidence at the bar of 60 or just below it.  The array is never
\* cleared, so any of these can follow, or stand in for, the written ones.
MaxSuggestions == 2
SuggestionInputs ==
    [ id : {1, 3, 4}, confidence : {59, 60}, optimization_data : {NULL} ]

SuggestionArrays ==
    UNION { [ 1 .. n -> SuggestionInputs ] : n \in 0 .. MaxSuggestions }

\* A cycle that has come back from ai_engine_analyze_performance with the
\* suggestion array in heap block 1.
InitGenerate ==
    /\ security_initialized = TRUE
    /\ policy = security_init_policy
    /\ rollback_log = EmptyLog
    /\ heap = [ EmptyHeap EXCEPT !.live = {1} ]
    /\ patch = NoDescriptor
    /\ clock = 0
    /\ call = NoApiCall
    /\ kernel_state = [ KernelBooted EXCEPT !.evolution.evolution_enabled = TRUE ]
    /\ ai_state = AiReady
    /\ buffers = NoBuffers
    /\ abi \in {1, 2}
    /\ web = WebZero
    /\ cycle \in { [ IdleCycle EXCEPT !.pc = "generate", !.entry = "analyze",
                                      !.calls = 1, !.suggestions_ptr = 1,
                                      !.suggestions = suggs ] :
                    suggs \in SuggestionArrays }
    /\ second = IdleCycle
    /\ status = NoStatus
    /\ models = analyze_accuracy(ModelsReady)

\* The rest of the cycle from there.
NextGenerate ==
    \/ \E array_ok \in BOOLEAN, failing \in { {}, {1} } :
          analyze_generate(array_ok, failing)
    \/ \E word \in UninitialisedWords \cup AddressHighWords
                     \cup {GENERATED_PATCH_SIZE}
                     \cup {address_low(p) : p \in 1 .. 8},
          tail \in CompleteTails :
          analyze_verify(word, tail)
    \/ \E apply_err \in {ERROR_NONE, ERROR_UNKNOWN} : analyze_apply(apply_err)
    \/ analyze_finish

SpecGenerate == InitGenerate /\ [][NextGenerate]_vars

\* ------------------------------------------------------------------------
\* A program that changes the policy between cycles
\* ------------------------------------------------------------------------
\* Calls of the evolution API this program makes.
MaxPolicyCalls == 2

\* Cycles on a fragmented system whose providers and allocations succeed,
\* with security_set_policy called between them.
NextPolicy ==
    \/ \E level \in security_policy_t :
          /\ cycle.pc = "idle"
          /\ security_set_policy(level)
    \/ /\ cycle.calls < MaxPolicyCalls
       /\ self_evolution_enable_true(ERROR_NONE, ERROR_NONE, ERROR_NONE,
                                     FragmentedMetrics)
    \/ /\ cycle.calls < MaxPolicyCalls
       /\ self_evolution_analyze(ERROR_NONE, ERROR_NONE, ERROR_NONE,
                                 FragmentedMetrics)
    \/ \E tail \in SuggestionTails : analyze_suggest(TRUE, TRUE, tail)
    \/ analyze_generate(TRUE, {})
    \/ \E word \in UninitialisedWords \cup AddressHighWords
                     \cup {GENERATED_PATCH_SIZE}
                     \cup {address_low(p) : p \in 1 .. 8},
          tail \in DescriptorTails :
          analyze_verify(word, tail)
    \/ \E apply_err \in {ERROR_NONE, ERROR_UNKNOWN} : analyze_apply(apply_err)
    \/ analyze_finish

SpecPolicy == Init /\ [][NextPolicy]_vars

\* ========================================================================
\* Web server: handle_client
\* ========================================================================
\* A request is a sequence of symbols: a word stands for the characters of
\* the word, the delimiters are single characters.  NUL is the terminator
\* parse_request writes at buffer[bytes_read] and strtok writes over a
\* delimiter.
NUL == "NUL"

\* buffer[p], positions from 1; the terminator lies behind the bytes read.
byte_at(buf, p) == IF p > Len(buf) THEN NUL ELSE buf[p]

\* First position from p on whose symbol is not in delims.
RECURSIVE skip_delims(_, _, _)
skip_delims(buf, p, delims) ==
    IF byte_at(buf, p) \in delims
    THEN skip_delims(buf, p + 1, delims) ELSE p

\* First position from p on that holds a symbol of delims or the terminator.
RECURSIVE find_delim(_, _, _)
find_delim(buf, p, delims) ==
    IF byte_at(buf, p) = NUL \/ byte_at(buf, p) \in delims
    THEN p ELSE find_delim(buf, p + 1, delims)

\* strtok with the scan starting at position start (the string given, or
\* the position the previous call saved): [tok, buf, save].  tok is 0 for a
\* null return; the delimiter that ends the token is overwritten with the
\* terminator and the scan position saved behind it, or on the terminator
\* when the token runs to the end of the string.
strtok(buf, start, delims) ==
    LET p == skip_delims(buf, start, delims)
        q == find_delim(buf, p, delims)
    IN IF byte_at(buf, p) = NUL THEN [ tok |-> 0, buf |-> buf, save |-> p ]
       ELSE IF byte_at(buf, q) = NUL
       THEN [ tok |-> p, buf |-> buf, save |-> q ]
       ELSE [ tok |-> p, buf |-> [buf EXCEPT ![q] = NUL], save |-> q + 1 ]

\* The C string at position p.
c_string(buf, p) == SubSeq(buf, p, find_delim(buf, p, {}) - 1)

\* Letters in lower case, for strcasecmp.
to_lower(sym) ==
    CASE sym = "Connection" -> "connection"
      [] sym = "Keep-Alive" -> "keep-alive"
      [] OTHER -> sym

\* strcasecmp(s, word) == 0
strcasecmp_equal(str, word) ==
    /\ Len(str) = 1
    /\ to_lower(str[1]) = to_lower(word)

\* The method of the request line: the six known words, UNKNOWN otherwise.
parse_method(str) ==
    IF Len(str) = 1
         /\ str[1] \in {"GET", "HEAD", "POST", "PUT", "DELETE", "OPTIONS"}
    THEN str[1] ELSE "UNKNOWN"

\* The header loop of parse_request: each line strtok(NULL, "\r\n") yields
\* is split at ':' and what follows, leading blanks skipped, is the value;
\* a Connection header whose value is keep-alive sets keep_alive.
RECURSIVE parse_headers(_, _, _)
parse_headers(buf, save, request) ==
    LET line == strtok(buf, save, {"\r", "\n"}) IN
    IF line.tok = 0 THEN request
    ELSE LET key == strtok(line.buf, line.tok, {":"})
             value == strtok(key.buf, key.save, {})
             text == c_string(value.buf,
                              skip_delims(value.buf, value.tok, {" "}))
             stored ==
               IF key.tok # 0 /\ value.tok # 0
               THEN [request EXCEPT
                       !.header_count = @ + 1,
                       !.keep_alive =
                          IF /\ strcasecmp_equal(c_string(key.buf, key.tok),
                                                 "Connection")
                             /\ strcasecmp_equal(text, "keep-alive")
                          THEN 1 ELSE @]
               ELSE request
         IN IF stored.header_count >= 100 THEN stored
            ELSE parse_headers(value.buf, value.save, stored)

\* parse_request: [ret, request, received].  The request line is one
\* strtok token of the buffer; its three words are taken by strtok calls on
\* that line, so the header loop continues from where the last of them
\* left the scan.
parse_request(read_err, buf) ==
    IF read_err # ERROR_NONE \/ Len(buf) = 0
    THEN [ ret |-> ERROR_INVALID_PARAMETER, request |-> RequestZero,
           received |-> 0 ]
    ELSE
      LET line == strtok(buf, 1, {"\r", "\n"})
          method_str == strtok(line.buf, line.tok, {" "})
          path == strtok(method_str.buf, method_str.save, {" "})
          version == strtok(path.buf, path.save, {" "})
      IN IF line.tok = 0 \/ method_str.tok = 0 \/ path.tok = 0
              \/ version.tok = 0
         THEN [ ret |-> ERROR_INVALID_PARAMETER, request |-> RequestZero,
                received |-> Len(buf) ]
         ELSE [ ret |-> ERROR_NONE,
                request |->
                  parse_headers(version.buf, version.save,
                     [RequestZero EXCEPT !.method =
                        parse_method(c_string(method_str.buf,
                                              method_str.tok))]),
                received |-> Len(buf) ]

\* What stat() and the file functions find at the request's path.
FileKinds == {"file", "directory", "directory_no_slash", "missing",
              "unreadable"}

\* build_response: the status and the Connection header; it returns
\* ERROR_NONE whatever serve_file and serve_directory return.
build_response(request, found) ==
    [ ret |-> ERROR_NONE,
      connection |-> IF request.keep_alive # 0 THEN "keep-alive" ELSE "close",
      status |->
        IF request.method = "GET"
        THEN CASE found = "missing" -> 404
               [] found = "directory_no_slash" -> 301
               [] found = "unreadable" -> 500
               [] OTHER -> 200
        ELSE IF request.method = "HEAD"
        THEN (IF found = "missing" THEN 404 ELSE 200)
        ELSE 405 ]

\* free_request: the strings are released and the structure is cleared.
free_request(request) == RequestZero

\* handle_client(client_fd) on a connection the server loop has accepted.
\* A request that does not parse is answered with 400 and the connection
\* is closed; otherwise the response is built and sent, request and
\* response are freed, and then request.keep_alive decides on io_close.
handle_client(read_err, buf, found) ==
    LET parsed == parse_request(read_err, buf)
        response == build_response(parsed.request, found)
        freed == free_request(parsed.request)
    IN /\ web' =
            IF parsed.ret # ERROR_NONE
            THEN [web EXCEPT
                    !.bytes_received = @ + parsed.received,
                    !.calls = @ + 1,
                    !.fd_open = FALSE,
                    !.last = [ buffer |-> buf, ret |-> parsed.ret,
                               status |-> 400, connection |-> "none" ]]
            ELSE [web EXCEPT
                    !.bytes_received = @ + parsed.received,
                    !.calls = @ + 1,
                    !.request_count = @ + 1,
                    !.fd_open = (freed.keep_alive # 0),
                    !.last = [ buffer |-> buf, ret |-> ERROR_NONE,
                               status |-> response.status,
                               connection |-> response.connection ]]
       /\ UNCHANGED <<secVars, apiVars, kernel_state, ai_state, buffers, abi,
                      cycle, second, status, models>>

\* Requests a client sends: a request line alone, with a Connection header
\* in either spelling and with either value, alone or after a Host header;
\* a request line that lacks its version; nothing.
RequestInputs ==
    LET RequestLine(method) ==
            << method, " ", "/", " ", "HTTP/1.1", "\r", "\n" >>
        HeaderLine(key, value) == << key, ":", " ", value, "\r", "\n" >>
        End == << "\r", "\n" >>
    IN { << >>, << "GET", " ", "/", "\r", "\n", "\r", "\n" >> }
       \cup { RequestLine(m) \o End : m \in {"GET", "HEAD", "BREW"} }
       \cup { RequestLine(m) \o HeaderLine(k, v) \o End :
                m \in {"GET", "POST"},
                k \in {"Connection", "connection"},
                v \in {"keep-alive", "Keep-Alive", "close"} }
       \cup { RequestLine("GET") \o HeaderLine("Host", "x")
                \o HeaderLine("Connection", v) \o End :
                v \in {"keep-alive", "close"} }

InitWeb ==
    /\ security_initialized = FALSE
    /\ policy = ZeroPolicy
    /\ rollback_log = EmptyLog
    /\ heap = EmptyHeap
    /\ patch = NoDescriptor
    /\ clock = 0
    /\ call = NoApiCall
    /\ kernel_state = KernelZero
    /\ ai_state = AiZero
    /\ buffers = NoBuffers
    /\ abi = 1
    /\ web = WebZero
    /\ cycle = IdleCycle
    /\ second = IdleCycle
    /\ status = NoStatus
    /\ models = ModelsZero

\* The server loop: one handle_client call per accepted connection.
NextWeb ==
    \E read_err \in {ERROR_NONE, ERROR_UNKNOWN}, buf \in RequestInputs,
       found \in FileKinds :
       /\ web.calls < MaxRequests
       /\ handle_client(read_err, buf, found)

SpecWeb == InitWeb /\ [][NextWeb]_vars

\* ========================================================================
\* Properties
\* ========================================================================
\* C1: in every execution of self_evolution_analyze the apply primitive is
\* reached for a patch only by the step in which security_verify_patch
\* returned ERROR_NONE for that same patch (same loop index, verified set),
\* and patch_count changes only by the apply step of such a patch, by one.
C1_ApplyOnlyAfterAdmit ==
    [][ /\ (cycle'.pc = "apply" /\ cycle.pc # "apply")
             => /\ cycle.pc = "loop"
                /\ cycle'.i = cycle.i
                /\ cycle'.err = ERROR_NONE
                /\ cycle'.desc.verified
        /\ (kernel_state'.evolution.patch_count
               # kernel_state.evolution.patch_count)
             => /\ cycle.pc = "apply"
                /\ cycle.err = ERROR_NONE
                /\ cycle.desc.verified
                /\ kernel_state'.evolution.patch_count
                      = kernel_state.evolution.patch_count + 1 ]_vars

\* C1 witness: a cycle has applied a patch and is back at the head of its
\* loop.
C1_Witness ==
    /\ cycle.pc = "loop"
    /\ cycle.i >= 1
    /\ kernel_state.evolution.patch_count = cycle.count_before + 1

VerifiedCall ==
    /\ call.op = "verify"
    /\ call.ptr = PATCH_PTR
    /\ security_initialized

StructurallyValid == 0 < call.size /\ call.size <= policy.max_patch_size

BackupPresent == patch.original_code # NULL /\ patch.original_size > 0

PayloadPresent == patch.patch_code # NULL /\ patch.size > 0

\* C3: security_verify_patch never returns success for, and never sets
\* verified on, a patch whose backup is absent or empty or whose payload is
\* absent, whatever the policy level and the target module.
C3_NoAdmissionWithoutBackup ==
    (VerifiedCall /\ (patch.original_code = NULL \/ patch.original_size = 0
                      \/ patch.patch_code = NULL))
    => (call.ret # ERROR_NONE /\ patch.verified = call.pre_verified)

\* C3 witness: a patch that only lacks its backup was presented and denied.
C3_Witness ==
    /\ VerifiedCall /\ StructurallyValid /\ PayloadPresent
    /\ module_known(patch.target_module)
    /\ module_allowed(policy, patch.target_module)
    /\ patch.original_code = NULL
    /\ ~call.pre_verified
    /\ call.ret = ERROR_INVALID_PARAMETER

\* C4 as stated: structural validity, then integrity, then policy
\* authorization; a patch without backup that targets a forbidden module is
\* denied for the missing backup (ERROR_INVALID_PARAMETER), not for the policy
\* (ERROR_PERMISSION_DENIED).
C4_IntegrityBeforePolicy ==
    (VerifiedCall /\ StructurallyValid /\ ~BackupPresent
       /\ module_known(patch.target_module)
       /\ ~module_allowed(policy, patch.target_module))
    => call.ret = ERROR_INVALID_PARAMETER

\* C4 amended: the checks run in the order structural validity, policy
\* authorization of the target module, integrity; the first failing check
\* decides the return code, so a patch without backup that targets a
\* forbidden module is denied with ERROR_PERMISSION_DENIED.
C4_PolicyBeforeIntegrity ==
    VerifiedCall =>
      /\ ~StructurallyValid => call.ret = ERROR_INVALID_PARAMETER
      /\ (StructurallyValid /\ ~module_known(patch.target_module))
           => call.ret = ERROR_INVALID_PARAMETER
      /\ (StructurallyValid /\ module_known(patch.target_module)
            /\ ~module_allowed(policy, patch.target_module))
           => call.ret = ERROR_PERMISSION_DENIED
      /\ (StructurallyValid /\ module_known(patch.target_module)
            /\ module_allowed(policy, patch.target_module)
            /\ ~(BackupPresent /\ PayloadPresent))
           => call.ret = ERROR_INVALID_PARAMETER

\* C4 witness: a patch without backup for a forbidden module was denied with
\* ERROR_PERMISSION_DENIED.
C4_Witness ==
    /\ VerifiedCall /\ StructurallyValid /\ ~BackupPresent
    /\ module_known(patch.target_module)
    /\ ~module_allowed(policy, patch.target_module)
    /\ call.ret = ERROR_PERMISSION_DENIED

\* The allow flags of each level, as the claim tabulates them.
LevelAllows(level, target_module) ==
    CASE level = SECURITY_POLICY_PERMISSIVE -> TRUE
      [] level = SECURITY_POLICY_STANDARD -> TRUE
      [] level = SECURITY_POLICY_STRICT ->
           target_module \in {MODULE_DRIVER, MODULE_SCHEDULER}
      [] level = SECURITY_POLICY_PARANOID -> FALSE

\* C5: for every level and every target module, a structurally valid patch
\* with backup and payload is admitted exactly when the level allows the
\* module, and is otherwise denied with ERROR_PERMISSION_DENIED.
C5_AdmitIffLevelAllows ==
    (VerifiedCall /\ StructurallyValid /\ BackupPresent /\ PayloadPresent
       /\ module_known(patch.target_module))
    => IF LevelAllows(call.level, patch.target_module)
       THEN call.ret = ERROR_NONE /\ patch.verified
       ELSE call.ret = ERROR_PERMISSION_DENIED

\* C5 witness: a valid memory-layout patch was denied under Strict with
\* ERROR_PERMISSION_DENIED.
C5_Witness ==
    /\ VerifiedCall /\ StructurallyValid /\ BackupPresent /\ PayloadPresent
    /\ patch.target_module = MODULE_MEMORY_LAYOUT
    /\ call.level = SECURITY_POLICY_STRICT
    /\ call.ret = ERROR_PERMISSION_DENIED

\* C6: a second security_verify_patch call with the same arguments, made
\* right after the first with no policy change in between, returns what the
\* first returned and changes nothing: policy, rollback log, heap and every
\* field of the descriptor stay as the first call left them.
C6_VerifyTwiceSame ==
    [][ (call'.op = "verify" /\ call'.again)
        => /\ call'.ret = call.ret
           /\ patch' = patch
           /\ policy' = policy
           /\ rollback_log' = rollback_log
           /\ heap' = heap
           /\ security_initialized' = security_initialized ]_vars

\* C6 witness: a patch not yet verified was admitted, and admitted again by
\* the repeated call.
C6_Witness ==
    /\ VerifiedCall /\ call.again
    /\ call.prev_ret = ERROR_NONE /\ call.ret = ERROR_NONE
    /\ call.pre_verified /\ patch.verified

\* The bundle of each level.
LevelBundle(level) ==
    [ level |-> level,
      allow_self_evolution |-> level # SECURITY_POLICY_PARANOID,
      allow_kernel_modifications |->
          level \in {SECURITY_POLICY_PERMISSIVE, SECURITY_POLICY_STANDARD},
      allow_driver_modifications |-> level # SECURITY_POLICY_PARANOID,
      allow_memory_layout_changes |->
          level \in {SECURITY_POLICY_PERMISSIVE, SECURITY_POLICY_STANDARD},
      allow_scheduler_modifications |-> level # SECURITY_POLICY_PARANOID,
      require_verification |-> TRUE,
      require_rollback_capability |-> TRUE,
      max_patch_size |->
          CASE level = SECURITY_POLICY_PERMISSIVE -> 8192
            [] level = SECURITY_POLICY_STANDARD -> 4096
            [] level = SECURITY_POLICY_STRICT -> 2048
            [] level = SECURITY_POLICY_PARANOID -> 1024,
      max_patches_per_cycle |->
          CASE level = SECURITY_POLICY_PERMISSIVE -> 10
            [] level = SECURITY_POLICY_STANDARD -> 5
            [] level = SECURITY_POLICY_STRICT -> 3
            [] level = SECURITY_POLICY_PARANOID -> 1 ]

\* C7: once security_set_policy(level) has returned success, every field of
\* the active policy is the one of that level's bundle, whatever policy was
\* active before; the same holds of the policy at any later time until the
\* next policy change.
C7_WholeBundleReplaced ==
    (security_initialized /\ call.op = "set_policy" /\ call.ret = ERROR_NONE)
    => policy = LevelBundle(call.level)

\* C7 witness: security_set_policy(Strict) returned success and the two deny
\* flags of Strict are in place.
C7_Witness ==
    /\ call.op = "set_policy" /\ call.ret = ERROR_NONE
    /\ call.level = SECURITY_POLICY_STRICT
    /\ policy.level = SECURITY_POLICY_STRICT
    /\ ~policy.allow_kernel_modifications
    /\ ~policy.allow_memory_layout_changes
    /\ policy.allow_driver_modifications

\* C8: security_rollback_patch(id) succeeds only when a live entry (patch_id
\* not 0) with that id exists, and then marks it dead; for an id already
\* rolled back, never logged, or the sentinel 0, it returns the not-found
\* error (ERROR_INVALID_PARAMETER) and changes nothing.
C8_RollbackOnlyLiveEntries ==
    [][ (call'.op = "rollback")
        => IF call'.id # 0 /\ matching_slots(rollback_log, call'.id) # {}
           THEN /\ call'.ret = ERROR_NONE
                /\ \E i \in matching_slots(rollback_log, call'.id) :
                      rollback_log' =
                        [rollback_log EXCEPT !.entries[i].patch_id = 0]
           ELSE /\ call'.ret = ERROR_INVALID_PARAMETER
                /\ rollback_log' = rollback_log
                /\ heap' = heap ]_vars

\* C9: after any number of successful appends the log's entry_count is the
\* number of appends, capped at the capacity, and the log holds exactly that
\* many most recent entries (creation stamps clock - entry_count + 1 ..
\* clock).
C9_LogKeepsMostRecent ==
    (call.op = "create" /\ call.ret = ERROR_NONE)
    => /\ rollback_log.entry_count =
            (IF clock < ROLLBACK_CAPACITY THEN clock ELSE ROLLBACK_CAPACITY)
       /\ { rollback_log.entries[i].apply_timestamp :
               i \in 0 .. (rollback_log.entry_count - 1) }
            = (clock - rollback_log.entry_count + 1) .. clock

\* C10: security_rollback_all rolls the live entries back most recently
\* created first, also once the log has wrapped: the creation stamps of the
\* entries it rolled back are strictly decreasing.  Stated for logs whose
\* entries all come from successful create calls.
C10_RollbackAllNewestFirst ==
    (call.op = "rollback_all" /\ NoCallInProgress
       /\ \A i \in 0 .. (rollback_log.entry_count - 1) :
             rollback_log.entries[i].original_code # NULL)
    => \A i, j \in 1 .. Len(call.order) :
          i < j => call.order[i] > call.order[j]

\* C11: when memory_init, scheduler_init, ai_engine_init and security_init
\* all succeed (and so do the allocations of self_evolution_init), kernel_init
\* returns ERROR_NONE and leaves kernel_state.initialized set, so that the
\* guards of a following process_create and self_evolution_enable(true) pass.
C11_KernelInitSucceeds ==
    [][ kernel_init(ERROR_NONE, ERROR_NONE, TRUE, TRUE, TRUE, TRUE)
        => /\ cycle'.ret = ERROR_NONE
           /\ kernel_state'.initialized ]_vars

C16_DisableDoesNotPreempt ==
    [][ /\ (cycle.pc = "idle" /\ cycle'.entry = "disable"
              /\ cycle'.calls = cycle.calls + 1 /\ second.pc # "idle")
            => /\ cycle'.ret = IF policy.allow_self_evolution
                               THEN ERROR_NONE ELSE ERROR_PERMISSION_DENIED
               /\ second' = second
               /\ heap' = heap
               /\ buffers' = buffers
               /\ kernel_state'.evolution.patch_count
                     = kernel_state.evolution.patch_count
               /\ kernel_state'.evolution.optimization_count
                     = kernel_state.evolution.optimization_count
        /\ (second' = second /\ cycle.pc \in {"loop", "apply"}
              /\ cycle'.pc = "idle")
            => /\ cycle.pc = "loop"
               /\ cycle.i = Len(cycle.patches)
               /\ cycle'.ret = ERROR_NONE
        /\ (second' = second /\ cycle.pc = "apply")
            => /\ cycle'.pc = "loop"
               /\ cycle'.i = cycle.i + 1 ]_vars

\* C16 witness: a thread has disabled evolution, with success, and the
\* other thread is inside its cycle, a verified patch in hand, about to
\* apply it.
C16_Witness ==
    /\ cycle.pc = "apply" /\ cycle.desc.verified
    /\ second.pc = "idle" /\ second.entry = "disable"
    /\ second.ret = ERROR_NONE
    /\ ~kernel_state.evolution.evolution_enabled

\* C17: in a cycle that gets as far as ai_engine_collect_metrics, a
\* failure of the memory provider, or else of the scheduler provider, is
\* what the call returns, and the cycle is over before anything is
\* allocated, verified or applied; a failure of the I/O provider alone
\* leaves the cycle running with io_operations = 0 in its snapshot.
C17_ProviderFailures ==
    [][ \A mem_err, sched_err, io_err \in ProviderResults,
           m \in MetricsInputs :
          ( /\ kernel_state.initialized
            /\ ai_state.initialized
            /\ \/ /\ kernel_state.evolution.evolution_enabled
                  /\ self_evolution_analyze(mem_err, sched_err, io_err, m)
               \/ /\ check_evolution_permission(security_initialized, policy)
                       = ERROR_NONE
                  /\ self_evolution_enable_true(mem_err, sched_err, io_err,
                                                m) )
          => IF mem_err # ERROR_NONE \/ sched_err # ERROR_NONE
             THEN /\ cycle'.pc = "idle"
                  /\ cycle'.ret = IF mem_err # ERROR_NONE THEN mem_err
                                                           ELSE sched_err
                  /\ heap' = heap
                  /\ rollback_log' = rollback_log
                  /\ kernel_state'.evolution.patch_count
                        = kernel_state.evolution.patch_count
             ELSE /\ cycle'.pc = "analyze"
                  /\ cycle'.metrics.io_operations
                        = IF io_err # ERROR_NONE THEN 0 ELSE m.io_operations
                  /\ cycle'.metrics.fragmentation_ratio
                        = m.fragmentation_ratio ]_vars

\* C17 witness: a cycle is past the collection with io_operations = 0 in
\* its snapshot, which no provider reports: the I/O provider has failed.
C17_Witness ==
    /\ cycle.pc = "analyze"
    /\ cycle.metrics.io_operations = 0
    /\ cycle.metrics.fragmentation_ratio = 60
    /\ cycle.metrics \notin MetricsInputs

C19_FragmentationOnlyPatch ==
    [][ /\ ( /\ cycle.pc = "analyze" /\ cycle'.pc = "generate"
              /\ cycle.metrics.fragmentation_ratio > 50
              /\ cycle.metrics.average_wait_time <= 100
              /\ ~(cycle.metrics.io_operations > 1000
                     /\ cycle.metrics.cpu_utilization < 50) )
            => /\ Len(cycle'.suggestions) = 1
               /\ cycle'.suggestions[1].id = 1
               /\ cycle'.suggestions[1].confidence = 80
        /\ ( /\ cycle.pc = "generate" /\ cycle'.pc = "loop"
              /\ Len(cycle.suggestions) = 1
              /\ cycle.suggestions[1].id = 1 )
            => Len(cycle'.patches) = 1
        /\ ( /\ cycle.pc = "loop" /\ cycle.i = 0 /\ cycle' # cycle
              /\ Len(cycle.patches) = 1
              /\ Len(cycle.suggestions) = 1
              /\ cycle.suggestions[1].id = 1
              /\ policy.level = SECURITY_POLICY_STANDARD )
            => /\ cycle'.pc = "apply"
               /\ cycle'.desc.verified
               /\ cycle'.desc.target_module = MODULE_MEMORY_LAYOUT
               /\ cycle'.desc.original_code # NULL
               /\ cycle'.desc.original_size > 0
               /\ cycle'.desc.patch_code # NULL ]_vars

\* C21: the history update at the end of a cycle appends one entry per
\* patch applied in the cycle, and an appended entry carries the id of the
\* suggestion its patch was made of, with actual_improvement 0 and reverted
\* false.  The pairing is checked in the cycles where it is unambiguous:
\* every suggestion got a patch and every patch was applied.
C21_HistoryPerAppliedPatch ==
    [][ (cycle.pc = "loop" /\ cycle'.pc = "idle")
        => LET h == buffers.history
               h2 == buffers'.history
               applied == kernel_state.evolution.patch_count
                            - cycle.count_before
           IN /\ h2.entry_count = h.entry_count + applied
              /\ (applied = Len(cycle.patches)
                    /\ Len(cycle.patches) = Len(cycle.suggestions))
                  => \A k \in 1 .. applied :
                        LET idx == h.entry_count + k - 1
                        IN /\ idx \in DOMAIN h2.entries
                           /\ h2.entries[idx].suggestion_id
                                 = cycle.suggestions[k].id
                           /\ h2.entries[idx].actual_improvement = 0
                           /\ ~h2.entries[idx].reverted ]_vars

C23_SkipIsNotFatal ==
    [][ LET ev == kernel_state.evolution
            ev2 == kernel_state'.evolution
        IN /\ (cycle.pc = "loop" /\ cycle' # cycle)
               => /\ ev2.patch_count = ev.patch_count
                  /\ IF cycle.i < Len(cycle.patches)
                     THEN /\ ev2.optimization_count = ev.optimization_count
                          /\ cycle'.patches = cycle.patches
                          /\ \/ cycle'.pc = "loop" /\ cycle'.i = cycle.i + 1
                             \/ /\ cycle'.pc = "apply" /\ cycle'.i = cycle.i
                                /\ cycle'.desc.verified
                     ELSE /\ cycle'.pc = "idle"
                          /\ cycle'.ret = ERROR_NONE
                          /\ ev2.optimization_count = ev.optimization_count + 1
           /\ \A apply_err \in {ERROR_NONE, ERROR_UNKNOWN} :
                 analyze_apply(apply_err)
                 => /\ cycle'.pc = "loop"
                    /\ cycle'.i = cycle.i + 1
                    /\ cycle'.patches = cycle.patches
                    /\ ev2.optimization_count = ev.optimization_count
                    /\ ev2.patch_count =
                          IF apply_err = ERROR_NONE THEN ev.patch_count + 1
                          ELSE ev.patch_count ]_vars

\* C23 witness: a cycle with two patches is at the end of its loop having
\* applied one of them: the other was denied or failed to apply, and the
\* cycle went on.
C23_Witness ==
    /\ cycle.pc = "loop"
    /\ Len(cycle.patches) = 2
    /\ cycle.i = 2
    /\ kernel_state.evolution.patch_count = cycle.count_before + 1

\* C24: no step of a cycle (collection, analysis, patch generation, loop,
\* history update) changes the accuracy of a model.
C24_CycleKeepsAccuracy ==
    [][ (cycle.pc # "idle" \/ cycle'.pc # "idle")
        => \A t \in ModelTypes :
              models'[t].accuracy = models[t].accuracy ]_vars

\* C25: once the engine is initialised, every model has a live payload,
\* whatever load attempts have been made, the failed ones included.
C25_OneLivePayload ==
    ai_state.initialized
    => \A t \in ModelTypes :
          /\ models[t].model_data # NULL
          /\ models[t].model_data \in heap.live
          /\ models[t].model_size > 0

\* C26: a learning step changes nothing of the models but accuracies, and
\* only those of the Memory, Scheduler and Performance models.  A model no
\* entry of the history selects (id 1 -> Memory, 2 -> Scheduler,
\* 3 -> Performance) keeps its accuracy; a model one entry selects gets
\* 0.9*a + 0.1*improvement, or 0.9*a if the entry is reverted; a model two
\* entries select gets the same twice, in the order of the entries.  With
\* a = 0.7, improvement 0.5, not reverted, the result is 0.68.
C26_LearningRule ==
    [][ ( /\ cycle.pc = "idle" /\ cycle'.entry = "learn"
          /\ cycle'.calls = cycle.calls + 1
          /\ ai_state.initialized )
        => LET h == ai_state.history
               Table == [ id \in 1 .. 3 |->
                            IF id = 1 THEN AI_MODEL_MEMORY
                            ELSE IF id = 2 THEN AI_MODEL_SCHEDULER
                            ELSE AI_MODEL_PERFORMANCE ]
               Selecting(t) ==
                   { j \in 0 .. (h.entry_count - 1) :
                       /\ h.entries[j].suggestion_id \in 1 .. 3
                       /\ Table[h.entries[j].suggestion_id] = t }
               Step(a, e) ==
                   IF e.reverted THEN (9 * a) \div 10
                   ELSE (9 * a + e.actual_improvement) \div 10
           IN \A t \in ModelTypes :
                 /\ models'[t].model_data = models[t].model_data
                 /\ models'[t].model_size = models[t].model_size
                 /\ models'[t].version = models[t].version
                 /\ Cardinality(Selecting(t)) = 0
                    => models'[t].accuracy = models[t].accuracy
                 /\ \A j \in Selecting(t) :
                       Selecting(t) = {j}
                       => /\ models'[t].accuracy
                              = Step(models[t].accuracy, h.entries[j])
                          /\ ( /\ models[t].accuracy = Accuracy(7, 10)
                               /\ h.entries[j].actual_improvement
                                     = Accuracy(1, 2)
                               /\ ~h.entries[j].reverted )
                             => models'[t].accuracy = Accuracy(68, 100)
                 /\ \A j, k \in Selecting(t) :
                       (j < k /\ Selecting(t) = {j, k})
                       => models'[t].accuracy
                            = Step(Step(models[t].accuracy, h.entries[j]),
                                   h.entries[k]) ]_vars

\* C26 witness: the Performance model, at 0.7 after an analysis pass, has
\* been through a learning step whose history holds one entry for it (id 3,
\* improvement 0.5, not reverted) and one for another model, and is at 0.68.
C26_Witness ==
    /\ cycle.pc = "idle" /\ cycle.entry = "learn" /\ cycle.ret = ERROR_NONE
    /\ ai_state.history.entry_count = 2
    /\ ai_state.history.entries[0].suggestion_id = 2
    /\ ai_state.history.entries[1].suggestion_id = 3
    /\ ~ai_state.history.entries[1].reverted
    /\ models[AI_MODEL_PERFORMANCE].accuracy = Accuracy(68, 100)
    /\ models[AI_MODEL_SCHEDULER].accuracy # Accuracy(7, 10) + Accuracy(2, 60)
    /\ models[AI_MODEL_MEMORY].accuracy = Accuracy(7, 10) + Accuracy(1, 60)

\* C27: an analysis pass yields at most three suggestions, with ids among
\* 1, 2, 3 in ascending order, each id at most once.
C27_AtMostThreeAscending ==
    [][ (cycle.pc = "analyze" /\ cycle'.pc = "generate")
        => /\ Len(cycle'.suggestions) <= 3
           /\ \A j \in 1 .. Len(cycle'.suggestions) :
                 cycle'.suggestions[j].id \in 1 .. 3
           /\ \A j, k \in 1 .. Len(cycle'.suggestions) :
                 j < k => cycle'.suggestions[j].id < cycle'.suggestions[k].id
      ]_vars

\* C28: when its allocations succeed, ai_engine_generate_patches returns
\* success with one patch, in a block of its own, for each suggestion whose
\* confidence is at least 60 and whose id is 1, 2 or 3, and none for the
\* other suggestions.
C28_OnePatchPerQualifying ==
    [][ analyze_generate(TRUE, {})
        => LET qualifying ==
                  { k \in 1 .. Len(cycle.suggestions) :
                      /\ cycle.suggestions[k].confidence >= 60
                      /\ cycle.suggestions[k].id \in {1, 2, 3} }
           IN /\ cycle'.pc = "loop"
              /\ Len(cycle'.patches) = Cardinality(qualifying)
              /\ \A j \in 1 .. Len(cycle'.patches) :
                    /\ cycle'.patches[j] \in heap'.live
                    /\ cycle'.patches[j] \notin heap.live
              /\ \A j, k \in 1 .. Len(cycle'.patches) :
                    j < k => cycle'.patches[j] # cycle'.patches[k] ]_vars

\* C28 witness: the generator has returned one patch for an array of two
\* suggestions, the first of them below the bar or of an unrecognised id.
C28_Witness ==
    /\ cycle.pc = "loop" /\ cycle.i = 0
    /\ Len(cycle.suggestions) = 2
    /\ (cycle.suggestions[1].confidence < 60 \/ cycle.suggestions[1].id = 4)
    /\ cycle.suggestions[2].confidence >= 60
    /\ cycle.suggestions[2].id \in {1, 2, 3}
    /\ Len(cycle.patches) = 1

\* C29: after a security_verify_patch call that denied the caller's patch,
\* the patch is not marked verified.
C29_DeniedIsNotVerified ==
    (call.op = "verify" /\ call.ptr = PATCH_PTR
       /\ call.ret = ERROR_PERMISSION_DENIED)
    => ~patch.verified

C32_FailedCreateLeavesLog ==
    [][ (call'.op = "create" /\ call'.ret = ERROR_MEMORY_ALLOCATION
           /\ clock' = clock /\ patch'.id = call'.id)
        => /\ rollback_log'.entry_count = rollback_log.entry_count
           /\ \A i \in DOMAIN rollback_log.entries :
                 rollback_log'.entries[i] = rollback_log.entries[i] ]_vars

\* C33: once security_rollback_all has returned, no entry of the rollback
\* log is live: every slot below entry_count has patch_id 0, whatever
\* security_create_rollback_entry calls came before, calls that logged the
\* same patch id twice included.
C33_RollbackAllLeavesNoneLive ==
    (call.op = "rollback_all" /\ NoCallInProgress)
    => \A i \in 0 .. (rollback_log.entry_count - 1) :
          rollback_log.entries[i].patch_id = 0

\* C34: a backup buffer that security_rollback_patch has freed is neither
\* freed nor read again: a later security_rollback_patch (called directly
\* or by security_rollback_all) does not release, and a later
\* security_get_rollback_log does not read, the original_code of a slot
\* that has already been rolled back (patch_id 0).
C34_FreedBackupNotTouched ==
    [][ /\ (call'.op = "rollback" /\ call'.ret = ERROR_NONE)
            => rollback_log.entries[rollback_target(rollback_log,
                                                    call'.id)].patch_id # 0
        /\ (call'.op = "get_log" /\ call.i < 0)
            => \A k \in 1 .. Len(call'.order) :
                  rollback_log.entries[call'.order[k]].patch_id # 0
        /\ ~heap'.double_free ]_vars

\* C35: after a successful security_create_rollback_entry every backup
\* buffer that is allocated and not yet freed is referenced by exactly one
\* live slot of the rollback log: a create call that overwrites a slot of
\* the full log releases the evicted entry's backup.
C35_BackupsAreReferenced ==
    (call.op = "create" /\ call.ret = ERROR_NONE)
    => \A p \in heap.live :
          Cardinality({ i \in DOMAIN rollback_log.entries :
                          /\ rollback_log.entries[i].patch_id # 0
                          /\ rollback_log.entries[i].original_code = p }) = 1

permissiveness(level) ==
    CASE level = SECURITY_POLICY_PARANOID -> 0
      [] level = SECURITY_POLICY_STRICT -> 1
      [] level = SECURITY_POLICY_STANDARD -> 2
      [] level = SECURITY_POLICY_PERMISSIVE -> 3

\* C39: the levels are ordered by strictness: a patch that
\* security_verify_patch admits under the active level is admitted, with the
\* same arguments, under the policy security_set_policy installs for every
\* level at least as permissive (Paranoid, Strict, Standard, Permissive in
\* increasing permissiveness); and the policy every security_set_policy call
\* installs has require_verification and require_rollback_capability true.
C39_LevelsOrderedByStrictness ==
    [][ /\ (call'.op = "verify" /\ call'.ret = ERROR_NONE)
            => \A l2 \in security_policy_t :
                  permissiveness(l2) >= permissiveness(policy.level)
                  => verify_patch_ret(security_initialized, call'.ptr, patch,
                                      call'.size,
                                      set_policy_fields(policy, l2))
                        = ERROR_NONE
        /\ (call'.op = "set_policy" /\ call'.ret = ERROR_NONE)
            => /\ policy'.require_verification
               /\ policy'.require_rollback_capability ]_vars

\* C39 witness: a driver patch of 1025 bytes, more than Paranoid's limit,
\* has been admitted under Strict.
C39_Witness ==
    /\ call.op = "verify" /\ call.ret = ERROR_NONE
    /\ call.level = SECURITY_POLICY_STRICT
    /\ policy.level = SECURITY_POLICY_STRICT
    /\ call.size = 1025
    /\ patch.target_module = MODULE_DRIVER
    /\ patch.verified

\* The bytes read carry a header line "Connection: keep-alive", in any
\* spelling of the two words.
AsksKeepAlive(buf) ==
    \E i \in 1 .. (Len(buf) - 3) :
       /\ to_lower(buf[i]) = "connection" /\ buf[i + 1] = ":"
       /\ buf[i + 2] = " " /\ to_lower(buf[i + 3]) = "keep-alive"

\* C40: after handle_client has built and sent a response successfully,
\* the client connection is closed exactly when the request did not ask for
\* keep-alive: a request carrying "Connection: keep-alive" is answered with
\* a "Connection: keep-alive" response header and its connection is left
\* open.
C40_KeepAliveKeepsOpen ==
    (web.calls > 0 /\ web.last.ret = ERROR_NONE)
    => /\ web.fd_open <=> AsksKeepAlive(web.last.buffer)
       /\ AsksKeepAlive(web.last.buffer)
             => web.last.connection = "keep-alive"
====
